---- MODULE Spec2Model ----
(***************************************************************************)
(* Tron: the recursive-descent parser (src/src/parser.rs) and the          *)
(* statement interpreter (src/src/interpreter.rs).                         *)
(*                                                                         *)
(* The parser is a set of mutually recursive operators over a parser       *)
(* record [tokens, current, next_id] (struct Parser); every operator       *)
(* returns a result record carrying the parser as the call left it, since  *)
(* the Rust methods mutate &mut self also on the Err path.                 *)
(* The interpreter is a small-step machine over a control stack: one frame *)
(* per active call of Interpreter::interpret.                              *)
(***************************************************************************)
EXTENDS Integers, Sequences, FiniteSets, TLC

VARIABLES
    tokens,      \* Parser.tokens
    current,     \* Parser.current
    next_id,     \* Parser.next_id
    stmts,       \* parse(): let mut stmts
    errs,        \* parse(): let mut errs
    pstatus,     \* "parsing", or how parse() ended: "ok", "err", "exit", "panic"
    cstack,      \* control stack of the running interpreters
    result,      \* value returned by the interpret call that just ended
    environment, \* Interpreter.environment of the running interpreter (a frame index)
    specials,    \* Interpreter.specials of the running interpreter
    heap,        \* the environment frames alive
    out,         \* what has been printed
    log,         \* history: the statements started, in order
    rstatus,     \* "idle", "running", "ok", "err", "exit"
    reference,   \* a second program to run after this one: its lexemes, or <<>>
    first        \* what the first program of the two did, or <<>>

vars == <<tokens, current, next_id, stmts, errs, pstatus, cstack, result,
          environment, specials, heap, out, log, rstatus, reference, first>>

pvars == <<tokens, current, next_id, stmts, errs, pstatus>>
rvars == <<cstack, result, environment, specials, heap, out, log, rstatus>>

(***************************************************************************)
(* Bounds of the model.                                                    *)
(***************************************************************************)
\* longest sequence of arbitrary tokens given to the parser
MaxSoup == 3
\* longest output the run may produce before printing is cut off
MaxOut == 4
\* largest number a variable may hold
MaxNum == 4
\* most statements recorded in the history
MaxLog == 14

\* parser.rs:93, 346, 568: the cap on parameters and arguments
MaxArgs == 255

(***************************************************************************)
(* Tokens.  The scanner is not part of the sources at hand: Tok gives the  *)
(* token of a lexeme by the keyword table of the language.                 *)
(***************************************************************************)
Keywords ==
    [ var |-> "Var", fun |-> "Fun", if |-> "If", elif |-> "Elif", else |-> "Else",
      while |-> "While", for |-> "For", break |-> "Break", return |-> "Return",
      try |-> "Try", catch |-> "Catch", start |-> "Start", end |-> "End",
      print |-> "Print", input |-> "Input", errors |-> "Errors", exits |-> "Exits",
      import |-> "Import", bench |-> "Bench", and |-> "And", or |-> "Or",
      nor |-> "Nor", xor |-> "Xor", true |-> "True", false |-> "False",
      nil |-> "Nil", gets |-> "Gets", cube |-> "Cube", root |-> "Root",
      cubicroot |-> "CubicRoot", random |-> "Random" ]

Punctuation ==
    ( "(" :> "LeftParen" ) @@ ( ")" :> "RightParen" ) @@ ( "[" :> "LeftBracket" ) @@
    ( "]" :> "RightBracket" ) @@ ( "," :> "Comma" ) @@ ( "." :> "Dot" ) @@
    ( ";" :> "Semicolon" ) @@ ( "=" :> "Equal" ) @@ ( "+" :> "Plus" ) @@
    ( "-" :> "Minus" ) @@ ( "*" :> "Star" ) @@ ( "/" :> "Slash" ) @@
    ( "%" :> "Percent" ) @@ ( "!" :> "Bang" ) @@ ( "==" :> "EqualEqual" ) @@
    ( "!=" :> "BangEqual" ) @@ ( "<" :> "Less" ) @@ ( "<=" :> "LessEqual" ) @@
    ( ">" :> "Greater" ) @@ ( ">=" :> "GreaterEqual" ) @@ ( "++" :> "Increment" ) @@
    ( "--" :> "Decrement" ) @@ ( "+=" :> "PlusEqual" ) @@ ( "-=" :> "MinusEqual" ) @@
    ( "^" :> "Power" ) @@ ( "|" :> "Pipe" ) @@ ( "<eof>" :> "Eof" )

Digits ==
    ( "0" :> 0 ) @@ ( "1" :> 1 ) @@ ( "2" :> 2 ) @@ ( "3" :> 3 ) @@ ( "4" :> 4 ) @@
    ( "5" :> 5 ) @@ ( "6" :> 6 ) @@ ( "7" :> 7 ) @@ ( "8" :> 8 ) @@ ( "9" :> 9 )

StringLexemes == { "\"ls\"", "\"s\"" }

TokenTypeOf(lexeme) ==
    IF lexeme \in DOMAIN Keywords THEN Keywords[lexeme]
    ELSE IF lexeme \in DOMAIN Punctuation THEN Punctuation[lexeme]
    ELSE IF lexeme \in DOMAIN Digits THEN "Number"
    ELSE IF lexeme \in StringLexemes THEN "StringLit"
    ELSE "Identifier"

Tok(lexeme) == [token_type |-> TokenTypeOf(lexeme), lexeme |-> lexeme]

\* the token stream of a sequence of lexemes, closed by Eof
Scan(lexemes) ==
    [i \in 1..(Len(lexemes) + 1) |->
        IF i <= Len(lexemes) THEN Tok(lexemes[i]) ELSE Tok("<eof>")]

(***************************************************************************)
(* Values (LiteralValue).                                                  *)
(***************************************************************************)
NumberV(k) == [ty |-> "Number", n |-> k, s |-> ""]
StringV(str) == [ty |-> "String", n |-> 0, s |-> str]
TrueV == [ty |-> "True", n |-> 0, s |-> ""]
FalseV == [ty |-> "False", n |-> 0, s |-> ""]
NilV == [ty |-> "Nil", n |-> 0, s |-> ""]

\* LiteralValue::from_token
from_token(token) ==
    IF token.token_type = "Number" THEN NumberV(Digits[token.lexeme])
    ELSE IF token.token_type = "StringLit" THEN StringV(token.lexeme)
    ELSE IF token.token_type = "True" THEN TrueV
    ELSE IF token.token_type = "False" THEN FalseV
    ELSE NilV

(***************************************************************************)
(* Parser: results and the token cursor.                                   *)
(***************************************************************************)
Ok(p, v) == [kind |-> "ok", p |-> p, val |-> v]
Err(p, msg) == [kind |-> "err", p |-> p, val |-> msg]
Exit(p, msg) == [kind |-> "exit", p |-> p, val |-> msg]
Panic(p, msg) == [kind |-> "panic", p |-> p, val |-> msg]

\* fn get_id without `self.next_id += 1`
get_id_stale(p) == [id |-> p.next_id, p |-> p]

\* fn get_id
get_id(p) == [id |-> p.next_id, p |-> [p EXCEPT !.next_id = @ + 1]]

peek(p) == p.tokens[p.current + 1]

previous(p) == p.tokens[p.current]

is_at_end(p) == peek(p).token_type = "Eof"

advance(p) == IF ~is_at_end(p) THEN [p EXCEPT !.current = @ + 1] ELSE p

check(p, typ) == peek(p).token_type = typ

\* match_token: whether it matches; the parser after it is advance(p)
match_token(p, typ) == ~is_at_end(p) /\ peek(p).token_type = typ

match_tokens(p, typs) == \E typ \in typs : match_token(p, typ)

consume(p, token_type, msg) ==
    IF peek(p).token_type = token_type
    THEN Ok(advance(p), previous(advance(p)))
    ELSE Exit(p, msg)

None == <<>>
Some(x) == <<x>>

(***************************************************************************)
(* Parser: expressions.                                                    *)
(***************************************************************************)
\* a call of the parser method fn: every call from one method of the grammar to
\* another goes through Parse, defined once all of them are
RECURSIVE Parse(_, _)
RECURSIVE params_loop(_, _), pipe_loop(_, _), left_assoc(_, _, _, _, _)
RECURSIVE args_loop(_, _), call_loop(_, _), array_loop(_, _), block_loop(_, _)
RECURSIVE elif_loop(_, _)


\* fn expression
expression(p) == Parse("assignment", p)

(***************************************************************************)
(* A `loop { .. }` whose every iteration consumes a token runs at most as  *)
(* many iterations as there are tokens.  Its state is the parser and the   *)
(* list built so far; an iteration either goes round again or leaves the   *)
(* loop with a result.  Running n iterations is running the first half of  *)
(* them and then the rest, which keeps the evaluation shallow on the long  *)
(* lists that the cap on arguments is about.                               *)
(***************************************************************************)
Again(p, list) == [kind |-> "ok", p |-> p, val |-> list, again |-> TRUE]
Leave(r) == [kind |-> r.kind, p |-> r.p, val |-> r.val, again |-> FALSE]
Left(s) == [kind |-> s.kind, p |-> s.p, val |-> s.val]

\* the shared loop of function and function_expression over the parameters;
\* the caller decides what the cap does
params_body(s) ==
    IF Len(s.val) >= MaxArgs THEN Leave(Err(s.p, "Cant have more than 255 arguments"))
    ELSE LET param == consume(s.p, "Identifier", "Expected parameter name")
         IN IF param.kind # "ok" THEN Leave(param)
            ELSE IF match_token(param.p, "Comma")
                 THEN Again(advance(param.p), Append(s.val, param.val))
                 ELSE Leave(Ok(param.p, Append(s.val, param.val)))

\* at most n iterations of the loop over the parameters
RECURSIVE params_iter(_, _)
params_iter(s, n) ==
    IF ~s.again \/ n = 0 THEN s
    ELSE IF n = 1 THEN params_body(s)
    ELSE params_iter(params_iter(s, n \div 2), n - (n \div 2))

params_loop(p, parameters) ==
    Left(params_iter(Again(p, parameters), Len(p.tokens)))

\* fn function_expression
function_expression(p) ==
    LET paren == consume(p, "LeftParen", "Expected '(' after anonymous function")
    IN IF paren.kind # "ok" THEN paren ELSE
    LET params == IF ~check(paren.p, "RightParen")
                  THEN params_loop(paren.p, <<>>)
                  ELSE Ok(paren.p, <<>>)
    IN IF params.kind = "err" THEN Panic(params.p, params.val)
       ELSE IF params.kind # "ok" THEN params ELSE
    LET rp == consume(params.p, "RightParen",
                      "Expected ')' after anonymous function parameters")
    IN IF rp.kind # "ok" THEN rp ELSE
    LET st == consume(rp.p, "Start",
                      "Expected 'start' after anonymous function declaration")
    IN IF st.kind # "ok" THEN st ELSE
    LET body == Parse("block_statement", st.p)
    IN IF body.kind # "ok" THEN body ELSE
    LET g == get_id(body.p)
    IN Ok(g.p, [t |-> "AnonFunction", id |-> g.id, paren |-> paren.val,
                arguments |-> params.val, body |-> body.val.statements])

\* fn assignment
assignment(p) ==
    LET expr == Parse("pipe", p)
    IN IF expr.kind # "ok" THEN expr
       ELSE IF match_token(expr.p, "Equal")
       THEN LET value == Parse("expression", advance(expr.p))
            IN IF value.kind # "ok" THEN value
               ELSE IF expr.val.t = "Variable"
               THEN LET g == get_id(value.p)
                    IN Ok(g.p, [t |-> "Assign", id |-> g.id, name |-> expr.val.name,
                                value |-> value.val])
               ELSE IF expr.val.t = "Get"
               THEN LET g == get_id(value.p)
                    IN Ok(g.p, [t |-> "Set", id |-> g.id, object |-> expr.val.object,
                                name |-> expr.val.name, value |-> value.val])
               ELSE Err(value.p, "Invalid assignment target.")
       ELSE expr

\* fn pipe: the while loop
pipe_loop(p, expr) ==
    IF match_token(p, "Pipe")
    THEN LET p1 == advance(p)
             function_ == Parse("or", p1)
         IN IF function_.kind # "ok" THEN function_
            ELSE LET g == get_id(function_.p)
                 IN pipe_loop(g.p, [t |-> "Call", id |-> g.id,
                                    callee |-> function_.val, paren |-> previous(p1),
                                    arguments |-> <<expr>>])
    ELSE Ok(p, expr)

\* fn pipe
pipe(p) ==
    LET expr == Parse("or", p)
    IN IF expr.kind # "ok" THEN expr ELSE pipe_loop(expr.p, expr.val)

\* the while loop of a binary level: while match_tokens(ops) { operator =
\* previous(); right = <rhs level>()?; expr = node { get_id(), expr, operator, right } }
left_assoc(p, expr, ops, rhs, node) ==
    IF match_tokens(p, ops)
    THEN LET p1 == advance(p)
             right == Parse(rhs, p1)
         IN IF right.kind # "ok" THEN right
            ELSE LET g == get_id(right.p)
                 IN left_assoc(g.p, [t |-> node, id |-> g.id, left |-> expr,
                                     operator |-> previous(p1), right |-> right.val],
                               ops, rhs, node)
    ELSE Ok(p, expr)

\* fn or
or(p) ==
    LET expr == Parse("nor", p)
    IN IF expr.kind # "ok" THEN expr
       ELSE left_assoc(expr.p, expr.val, {"Or"}, "and", "Logical")

\* fn nor
nor(p) ==
    LET expr == Parse("xor", p)
    IN IF expr.kind # "ok" THEN expr
       ELSE left_assoc(expr.p, expr.val, {"Nor"}, "and", "Logical")

\* fn xor
xor(p) ==
    LET expr == Parse("and", p)
    IN IF expr.kind # "ok" THEN expr
       ELSE left_assoc(expr.p, expr.val, {"Xor"}, "and", "Logical")

\* fn and
and(p) ==
    LET expr == Parse("equality", p)
    IN IF expr.kind # "ok" THEN expr
       ELSE left_assoc(expr.p, expr.val, {"And"}, "equality", "Logical")

\* fn equality
equality(p) ==
    LET expr == Parse("comparison", p)
    IN IF expr.kind # "ok" THEN expr
       ELSE left_assoc(expr.p, expr.val, {"BangEqual", "EqualEqual"},
                       "comparison", "Binary")

\* fn comparison
comparison(p) ==
    LET expr == Parse("term", p)
    IN IF expr.kind # "ok" THEN expr
       ELSE left_assoc(expr.p, expr.val,
                       {"Greater", "GreaterEqual", "Less", "LessEqual"},
                       "term", "Binary")

\* fn term
term(p) ==
    LET expr == Parse("factor", p)
    IN IF expr.kind # "ok" THEN expr
       ELSE left_assoc(expr.p, expr.val,
                       {"Minus", "Plus", "PlusEqual", "MinusEqual", "Random"},
                       "factor", "Binary")

\* fn factor
factor(p) ==
    LET expr == Parse("unary", p)
    IN IF expr.kind # "ok" THEN expr
       ELSE left_assoc(expr.p, expr.val,
                       {"Slash", "Star", "Power", "Cube", "Root", "CubicRoot"},
                       "unary", "Binary")

\* fn unary
unary(p) ==
    IF match_tokens(p, {"Bang", "Minus", "Increment", "Decrement", "Percent"})
    THEN LET p1 == advance(p)
             rhs == Parse("unary", p1)
         IN IF rhs.kind # "ok" THEN rhs
            ELSE LET g == get_id(rhs.p)
                 IN Ok(g.p, [t |-> "Unary", id |-> g.id, operator |-> previous(p1),
                             right |-> rhs.val])
    ELSE Parse("call", p)

\* fn finish_call: the loop over the arguments
args_body(s) ==
    LET arg == Parse("expression", s.p)
    IN IF arg.kind # "ok" THEN Leave(arg)
       ELSE IF Len(s.val) + 1 >= MaxArgs
       THEN Leave(Err(arg.p, "Cant have more than 255 arguments"))
       ELSE IF match_token(arg.p, "Comma")
       THEN Again(advance(arg.p), Append(s.val, arg.val))
       ELSE Leave(Ok(arg.p, Append(s.val, arg.val)))

\* at most n iterations of the loop over the arguments
RECURSIVE args_iter(_, _)
args_iter(s, n) ==
    IF ~s.again \/ n = 0 THEN s
    ELSE IF n = 1 THEN args_body(s)
    ELSE args_iter(args_iter(s, n \div 2), n - (n \div 2))

args_loop(p, arguments) ==
    Left(args_iter(Again(p, arguments), Len(p.tokens)))

\* fn finish_call
finish_call(p, callee) ==
    LET arguments == IF ~check(p, "RightParen") THEN args_loop(p, <<>>)
                     ELSE Ok(p, <<>>)
    IN IF arguments.kind # "ok" THEN arguments ELSE
    LET paren == consume(arguments.p, "RightParen", "Expected ')' after arguments.")
    IN IF paren.kind # "ok" THEN paren ELSE
    LET g == get_id(paren.p)
    IN Ok(g.p, [t |-> "Call", id |-> g.id, callee |-> callee, paren |-> paren.val,
                arguments |-> arguments.val])

\* fn call: the loop
call_loop(p, expr) ==
    IF match_token(p, "LeftParen")
    THEN LET c == finish_call(advance(p), expr)
         IN IF c.kind # "ok" THEN c ELSE call_loop(c.p, c.val)
    ELSE IF match_token(p, "Dot")
    THEN LET name == consume(advance(p), "Identifier",
                             "Expected token after dot-accessor")
         IN IF name.kind # "ok" THEN name
            ELSE LET g == get_id(name.p)
                 IN call_loop(g.p, [t |-> "Get", id |-> g.id, object |-> expr,
                                    name |-> name.val])
    ELSE Ok(p, expr)

\* fn call
call(p) ==
    LET expr == Parse("primary", p)
    IN IF expr.kind # "ok" THEN expr ELSE call_loop(expr.p, expr.val)

\* fn parse_array: the while loop
array_loop(p, elements) ==
    IF ~check(p, "RightBracket") /\ ~is_at_end(p)
    THEN LET element == Parse("expression", p)
         IN IF element.kind # "ok" THEN element
            ELSE IF match_token(element.p, "Comma")
            THEN array_loop(advance(element.p), Append(elements, element.val))
            ELSE Ok(element.p, Append(elements, element.val))
    ELSE Ok(p, elements)

\* fn parse_array
parse_array(p) ==
    LET g == get_id(p)
        elements == array_loop(advance(g.p), <<>>)
    IN IF elements.kind # "ok" THEN elements ELSE
    LET rb == consume(elements.p, "RightBracket", "Expect ']' after array elements.")
    IN IF rb.kind # "ok" THEN rb
       ELSE Ok(rb.p, [t |-> "Array", id |-> g.id, elements |-> elements.val])

\* fn primary
primary(p) ==
    LET token == peek(p)
        ty == token.token_type
    IN IF ty = "LeftParen"
       THEN LET expr == Parse("expression", advance(p))
            IN IF expr.kind # "ok" THEN expr ELSE
            LET rp == consume(expr.p, "RightParen", "Expected ')' after expression")
            IN IF rp.kind # "ok" THEN rp ELSE
            LET g == get_id(rp.p)
            IN Ok(g.p, [t |-> "Grouping", id |-> g.id, expression |-> expr.val])
       ELSE IF ty \in {"False", "True", "Nil", "Number", "StringLit"}
       THEN LET g == get_id(advance(p))
            IN Ok(g.p, [t |-> "Literal", id |-> g.id, value |-> from_token(token)])
       ELSE IF ty = "LeftBracket"
       THEN parse_array(p)
       ELSE IF ty = "Identifier"
       THEN LET p1 == advance(p)
                g == get_id(p1)
                expr == [t |-> "Variable", id |-> g.id, name |-> previous(g.p)]
            IN IF match_token(g.p, "LeftBracket")
               THEN LET index == Parse("expression", advance(g.p))
                    IN IF index.kind # "ok" THEN index ELSE
                    LET rb == consume(index.p, "RightBracket",
                                      "Expected ']' after index")
                    IN IF rb.kind # "ok" THEN rb ELSE
                    LET g2 == get_id(rb.p)
                    IN Ok(g2.p, [t |-> "Array", id |-> g2.id,
                                 elements |-> <<expr, index.val>>])
               ELSE Ok(g.p, expr)
       ELSE IF ty = "Fun"
       THEN Parse("function_expression", advance(p))
       ELSE Err(p, "Expected expression")

(***************************************************************************)
(* Parser: statements.                                                     *)
(***************************************************************************)
NATIVE_FUNCTIONS ==
    { "sin", "cos", "tan", "round", "floor", "to_degrees", "to_radians", "input",
      "typeof", "len", "push", "join", "pop", "shift" }

\* fn block_statement: the while loop
block_loop(p, statements) ==
    IF ~check(p, "End") /\ ~is_at_end(p)
    THEN LET decl == Parse("declaration", p)
         IN IF decl.kind # "ok" THEN decl
            ELSE block_loop(decl.p, Append(statements, decl.val))
    ELSE Ok(p, statements)

\* fn block_statement
block_statement(p) ==
    LET statements == block_loop(p, <<>>)
    IN IF statements.kind # "ok" THEN statements ELSE
    LET e == consume(statements.p, "End", "Expected 'end' after a block")
    IN IF e.kind # "ok" THEN e
       ELSE Ok(e.p, [t |-> "Block", statements |-> statements.val])

\* fn function
function(p) ==
    LET name == consume(p, "Identifier", "Expected Function name")
    IN IF name.kind # "ok" THEN name
       ELSE IF name.val.lexeme \in NATIVE_FUNCTIONS
       THEN Err(name.p, "Cannot redefine a native function.")
       ELSE IF match_token(name.p, "Gets")
       THEN LET cmd_body == consume(advance(name.p), "StringLit",
                                    "Expected command body")
            IN IF cmd_body.kind # "ok" THEN cmd_body ELSE
            LET semi == consume(cmd_body.p, "Semicolon",
                                "Expected Semicolon after command body")
            IN IF semi.kind # "ok" THEN semi
               ELSE Ok(semi.p, [t |-> "CmdFunction", name |-> name.val,
                                cmd |-> cmd_body.val.lexeme])
       ELSE
    LET lp == consume(name.p, "LeftParen", "Expected '(' after Function name")
    IN IF lp.kind # "ok" THEN lp ELSE
    LET parameters == IF ~check(lp.p, "RightParen") THEN params_loop(lp.p, <<>>)
                      ELSE Ok(lp.p, <<>>)
    IN IF parameters.kind # "ok" THEN parameters ELSE
    LET rp == consume(parameters.p, "RightParen", "Expected ')' after parameters.")
    IN IF rp.kind # "ok" THEN rp ELSE
    LET st == consume(rp.p, "Start", "Expected 'start' before Function body.")
    IN IF st.kind # "ok" THEN st ELSE
    LET body == Parse("block_statement", st.p)
    IN IF body.kind # "ok" THEN body
       ELSE Ok(body.p, [t |-> "Function", name |-> name.val,
                        params |-> parameters.val, body |-> body.val.statements])

\* fn var_declaration
var_declaration(p) ==
    LET token == consume(p, "Identifier", "Expected variable name")
    IN IF token.kind # "ok" THEN token ELSE
    LET initializer ==
            IF match_token(token.p, "Equal") THEN Parse("expression", advance(token.p))
            ELSE LET g == get_id(token.p)
                 IN Ok(g.p, [t |-> "Literal", id |-> g.id, value |-> NilV])
    IN IF initializer.kind # "ok" THEN initializer ELSE
    LET semi == consume(initializer.p, "Semicolon",
                        "Expected ';' after variable declaration")
    IN IF semi.kind # "ok" THEN semi
       ELSE Ok(semi.p, [t |-> "Var", name |-> token.val,
                        initializer |-> initializer.val])

\* print_statement, inputs_statement, error_statement, import_statement and
\* expression_statement: expression()?; consume(Semicolon)?; Ok(Stmt { expression })
expr_then_semicolon(p, node, msg) ==
    LET value == Parse("expression", p)
    IN IF value.kind # "ok" THEN value ELSE
    LET semi == consume(value.p, "Semicolon", msg)
    IN IF semi.kind # "ok" THEN semi
       ELSE Ok(semi.p, [t |-> node, expression |-> value.val])

print_statement(p) == expr_then_semicolon(p, "Print", "Expected ';' after value.")

inputs_statement(p) == expr_then_semicolon(p, "Input", "Expected ';' after value.")

error_statement(p) == expr_then_semicolon(p, "Errors", "Expected ';' after value.")

import_statement(p) == expr_then_semicolon(p, "Import", "Expected ';' after value.")

expression_statement(p) ==
    expr_then_semicolon(p, "Expression", "Expected ';' after expression.")

\* fn exits_statement
exits_statement(p) ==
    LET semi == consume(p, "Semicolon", "Expected ';' after value.")
    IN IF semi.kind # "ok" THEN semi ELSE Ok(semi.p, [t |-> "Exits"])

\* fn return_statement
return_statement(p) ==
    LET keyword == previous(p)
        value == IF ~check(p, "Semicolon")
                 THEN LET e == Parse("expression", p)
                      IN IF e.kind # "ok" THEN e ELSE Ok(e.p, Some(e.val))
                 ELSE Ok(p, None)
    IN IF value.kind # "ok" THEN value ELSE
    LET semi == consume(value.p, "Semicolon", "Expected ';' after return value;")
    IN IF semi.kind # "ok" THEN semi
       ELSE Ok(semi.p, [t |-> "ReturnStmt", keyword |-> keyword, value |-> value.val])

\* fn break_statement
break_statement(p) ==
    LET keyword == previous(p)
        semi == consume(p, "Semicolon", "Expected Semicolon after return value")
    IN IF semi.kind # "ok" THEN semi
       ELSE Ok(semi.p, [t |-> "BreakStmt", keyword |-> keyword])

\* fn for_statement: an optional clause that parsed becomes Some(clause)
optional(r) == IF r.kind # "ok" THEN r ELSE Ok(r.p, Some(r.val))

\* fn for_statement: the initializer clause
for_initializer(p) ==
    IF match_token(p, "Semicolon") THEN Ok(advance(p), None)
    ELSE IF match_token(p, "Var") THEN optional(var_declaration(advance(p)))
    ELSE optional(expression_statement(p))

\* fn for_statement: the condition and the increment clauses
for_clause(p, closing) ==
    IF ~check(p, closing) THEN optional(Parse("expression", p)) ELSE Ok(p, None)

\* fn for_statement
for_statement(p) ==
    LET initializer == for_initializer(p)
    IN IF initializer.kind # "ok" THEN initializer ELSE
    LET condition == for_clause(initializer.p, "Semicolon")
    IN IF condition.kind # "ok" THEN condition ELSE
    LET semi == consume(condition.p, "Semicolon", "Expected ';' after loop condition.")
    IN IF semi.kind # "ok" THEN semi ELSE
    LET increment == for_clause(semi.p, "RightParen")
    IN IF increment.kind # "ok" THEN increment ELSE
    LET body0 == Parse("statement", increment.p)
    IN IF body0.kind # "ok" THEN body0 ELSE
    LET body1 == IF increment.val # None
                 THEN [t |-> "Block",
                       statements |-> <<body0.val,
                                        [t |-> "Expression",
                                         expression |-> increment.val[1]]>>]
                 ELSE body0.val
        g == get_id(body0.p)
        cond == IF condition.val = None
                THEN [t |-> "Literal", id |-> g.id, value |-> TrueV]
                ELSE condition.val[1]
        pc == IF condition.val = None THEN g.p ELSE body0.p
        body2 == [t |-> "WhileStmt", condition |-> cond, body |-> body1]
        body3 == IF initializer.val # None
                 THEN [t |-> "Block", statements |-> <<initializer.val[1], body2>>]
                 ELSE body2
    IN Ok(pc, body3)

\* fn while_statement
while_statement(p) ==
    LET condition == Parse("expression", p)
    IN IF condition.kind # "ok" THEN condition ELSE
    LET body == Parse("statement", condition.p)
    IN IF body.kind # "ok" THEN body
       ELSE Ok(body.p, [t |-> "WhileStmt", condition |-> condition.val,
                        body |-> body.val])

\* fn bench_statement
bench_statement(p) ==
    LET body == Parse("statement", p)
    IN IF body.kind # "ok" THEN body
       ELSE Ok(body.p, [t |-> "BenchStmt", body |-> body.val])

\* fn if_statement: the while loop over the elif branches
elif_loop(p, elif_branches) ==
    IF match_token(p, "Elif")
    THEN LET elif_predicate == Parse("expression", advance(p))
         IN IF elif_predicate.kind # "ok" THEN elif_predicate ELSE
         LET elif_stmt == Parse("statement", elif_predicate.p)
         IN IF elif_stmt.kind # "ok" THEN elif_stmt
            ELSE elif_loop(elif_stmt.p,
                           Append(elif_branches,
                                  <<elif_predicate.val, elif_stmt.val>>))
    ELSE Ok(p, elif_branches)

\* fn if_statement
if_statement(p) ==
    LET predicate == Parse("expression", p)
    IN IF predicate.kind # "ok" THEN predicate ELSE
    LET then == Parse("statement", predicate.p)
    IN IF then.kind # "ok" THEN then ELSE
    LET elif_branches == elif_loop(then.p, <<>>)
    IN IF elif_branches.kind # "ok" THEN elif_branches ELSE
    LET els == IF match_token(elif_branches.p, "Else")
               THEN LET s == Parse("statement", advance(elif_branches.p))
                    IN IF s.kind # "ok" THEN s ELSE Ok(s.p, Some(s.val))
               ELSE Ok(elif_branches.p, None)
    IN IF els.kind # "ok" THEN els
       ELSE Ok(els.p, [t |-> "IfStmt", predicate |-> predicate.val,
                       then |-> then.val, elif_branches |-> elif_branches.val,
                       els |-> els.val])

\* fn try_statement
try_statement(p) ==
    LET tri == Parse("statement", p)
    IN IF tri.kind # "ok" THEN tri
       ELSE IF match_token(tri.p, "Catch")
       THEN LET stm == Parse("statement", advance(tri.p))
            IN IF stm.kind # "ok" THEN stm
               ELSE Ok(stm.p, [t |-> "TryStmt", tri |-> tri.val, catch |-> stm.val])
       ELSE Err(tri.p, "Expected 'catch' clause in try statement")

\* fn statement
statement(p) ==
    IF match_token(p, "Start") THEN Parse("block_statement", advance(p))
    ELSE IF match_token(p, "Print") THEN print_statement(advance(p))
    ELSE IF match_token(p, "Input") THEN inputs_statement(advance(p))
    ELSE IF match_token(p, "Errors") THEN error_statement(advance(p))
    ELSE IF match_token(p, "Exits") THEN exits_statement(advance(p))
    ELSE IF match_token(p, "Import") THEN import_statement(advance(p))
    ELSE IF match_token(p, "If") THEN if_statement(advance(p))
    ELSE IF match_token(p, "Try") THEN try_statement(advance(p))
    ELSE IF match_token(p, "While") THEN while_statement(advance(p))
    ELSE IF match_token(p, "Bench") THEN bench_statement(advance(p))
    ELSE IF match_token(p, "For") THEN for_statement(advance(p))
    ELSE IF match_token(p, "Return") THEN return_statement(advance(p))
    ELSE IF match_token(p, "Break") THEN break_statement(advance(p))
    ELSE expression_statement(p)

\* fn declaration
declaration(p) ==
    IF match_token(p, "Var") THEN var_declaration(advance(p))
    ELSE IF match_token(p, "Fun") THEN function(advance(p))
    ELSE Parse("statement", p)

\* the methods of the grammar by name
Parse(fn, p) ==
    CASE fn = "declaration" -> declaration(p)
      [] fn = "statement" -> statement(p)
      [] fn = "block_statement" -> block_statement(p)
      [] fn = "expression" -> expression(p)
      [] fn = "assignment" -> assignment(p)
      [] fn = "pipe" -> pipe(p)
      [] fn = "or" -> or(p)
      [] fn = "nor" -> nor(p)
      [] fn = "xor" -> xor(p)
      [] fn = "and" -> and(p)
      [] fn = "equality" -> equality(p)
      [] fn = "comparison" -> comparison(p)
      [] fn = "term" -> term(p)
      [] fn = "factor" -> factor(p)
      [] fn = "unary" -> unary(p)
      [] fn = "call" -> call(p)
      [] fn = "primary" -> primary(p)
      [] fn = "function_expression" -> function_expression(p)

\* fn synchronize: the while loop
RECURSIVE synchronize_loop(_)
RECURSIVE synchronize_loop_over(_)

\* a loop that ends one token after Eof
synchronize_loop_over(p) ==
    IF ~is_at_end(p)
    THEN IF previous(p).token_type = "Semicolon" THEN p
         ELSE IF peek(p).token_type \in
                    {"Fun", "Var", "For", "If", "Input", "Errors", "While", "Bench",
                     "Print", "Return", "Import", "Try", "Exits", "Break"}
         THEN p
         ELSE synchronize_loop_over(advance(p))
    ELSE [p EXCEPT !.current = @ + 1]

synchronize_loop(p) ==
    IF ~is_at_end(p)
    THEN IF previous(p).token_type = "Semicolon" THEN p
         ELSE IF peek(p).token_type \in
                    {"Fun", "Var", "For", "If", "Input", "Errors", "While", "Bench",
                     "Print", "Return", "Import", "Try", "Exits", "Break"}
         THEN p
         ELSE synchronize_loop(advance(p))
    ELSE p

\* a synchronize that leaves the parser where the error was
synchronize_stay(p) == p

\* fn synchronize
synchronize(p) == synchronize_loop(advance(p))

(***************************************************************************)
(* Environment: a chain of frames.  The heap holds the frames alive, a     *)
(* frame is named by its index, parent 0 ends the chain.  environment.rs   *)
(* and expr.rs are not part of the sources at hand: the operations below   *)
(* follow sections 4.4 and 4.5 of the specification.                       *)
(***************************************************************************)
NoVals == [x \in {} |-> NilV]

NewFrame(parent) == [vals |-> NoVals, parent |-> parent]

\* Environment::enclose: a child frame of env, allocated at the end of the heap
enclose(h, env) == Append(h, NewFrame(env))

\* Environment::define
define(h, env, name, value) ==
    [h EXCEPT ![env].vals = (name :> value) @@ @]

\* the nearest frame of the chain from env that binds name, 0 when none does
RECURSIVE find_frame(_, _, _)
find_frame(h, env, name) ==
    IF env = 0 THEN 0
    ELSE IF name \in DOMAIN h[env].vals THEN env
    ELSE find_frame(h, h[env].parent, name)

\* LiteralValue::is_truthy
is_truthy(v) == ~(v.ty \in {"False", "Nil"} \/ (v.ty = "Number" /\ v.n = 0))

BoolV(b) == IF b THEN TrueV ELSE FalseV

EvOk(v, h) == [ok |-> TRUE, val |-> v, heap |-> h, msg |-> ""]
EvErr(m, h) == [ok |-> FALSE, val |-> NilV, heap |-> h, msg |-> m]

\* Expr::evaluate for Binary, on two values
binary_op(op, l, r, h) ==
    IF op \in {"EqualEqual", "BangEqual"}
    THEN EvOk(BoolV((l = r) = (op = "EqualEqual")), h)
    ELSE IF l.ty = "Number" /\ r.ty = "Number"
    THEN CASE op = "Plus" -> EvOk(NumberV(l.n + r.n), h)
           [] op = "Minus" -> EvOk(NumberV(l.n - r.n), h)
           [] op = "Star" -> EvOk(NumberV(l.n * r.n), h)
           [] op = "Less" -> EvOk(BoolV(l.n < r.n), h)
           [] op = "LessEqual" -> EvOk(BoolV(l.n <= r.n), h)
           [] op = "Greater" -> EvOk(BoolV(l.n > r.n), h)
           [] op = "GreaterEqual" -> EvOk(BoolV(l.n >= r.n), h)
           [] OTHER -> EvErr("operator is not implemented for operands", h)
    ELSE EvErr("operator is not implemented for operands", h)

\* Expr::evaluate, for the expressions without a call
RECURSIVE evaluate(_, _, _)
evaluate(e, h, env) ==
    CASE e.t = "Literal" -> EvOk(e.value, h)
      [] e.t = "Grouping" -> evaluate(e.expression, h, env)
      [] e.t = "Variable" ->
            LET f == find_frame(h, env, e.name.lexeme)
            IN IF f = 0 THEN EvErr("Variable has not been declared", h)
               ELSE EvOk(h[f].vals[e.name.lexeme], h)
      [] e.t = "Assign" ->
            LET v == evaluate(e.value, h, env)
                f == find_frame(v.heap, env, e.name.lexeme)
            IN IF ~v.ok THEN v
               ELSE IF f = 0 THEN EvErr("Variable has not been declared", v.heap)
               ELSE EvOk(v.val, define(v.heap, f, e.name.lexeme, v.val))
      [] e.t = "Unary" ->
            LET r == evaluate(e.right, h, env)
            IN IF ~r.ok THEN r
               ELSE IF e.operator.token_type = "Bang"
               THEN EvOk(BoolV(~is_truthy(r.val)), r.heap)
               ELSE IF r.val.ty # "Number"
               THEN EvErr("operator is not implemented for operand", r.heap)
               ELSE IF e.operator.token_type = "Minus"
               THEN EvOk(NumberV(0 - r.val.n), r.heap)
               ELSE IF e.operator.token_type = "Increment"
               THEN EvOk(NumberV(r.val.n + 1), r.heap)
               ELSE IF e.operator.token_type = "Decrement"
               THEN EvOk(NumberV(r.val.n - 1), r.heap)
               ELSE EvErr("operator is not implemented for operand", r.heap)
      [] e.t = "Binary" ->
            LET l == evaluate(e.left, h, env)
            IN IF ~l.ok THEN l
               ELSE LET r == evaluate(e.right, l.heap, env)
                    IN IF ~r.ok THEN r
                       ELSE binary_op(e.operator.token_type, l.val, r.val, r.heap)
      [] e.t = "Logical" ->
            LET l == evaluate(e.left, h, env)
            IN IF ~l.ok THEN l
               ELSE IF e.operator.token_type = "Or"
               THEN IF is_truthy(l.val) THEN l ELSE evaluate(e.right, l.heap, env)
               ELSE IF e.operator.token_type = "And"
               THEN IF ~is_truthy(l.val) THEN l ELSE evaluate(e.right, l.heap, env)
               ELSE LET r == evaluate(e.right, l.heap, env)
                    IN IF ~r.ok THEN r
                       ELSE IF e.operator.token_type = "Nor"
                       THEN EvOk(BoolV(~(is_truthy(l.val) \/ is_truthy(r.val))),
                                 r.heap)
                       ELSE EvOk(BoolV(is_truthy(l.val) # is_truthy(r.val)), r.heap)
      [] e.t = "AnonFunction" ->
            EvOk([ty |-> "Callable", n |-> env, s |-> "", arity |-> Len(e.arguments),
                  params |-> e.arguments, body |-> e.body], h)
      [] OTHER -> EvErr("expression outside the model", h)

\* the numbers a frame holds stay within the bound of the model
heap_in_range(h) ==
    \A i \in 1..Len(h) : \A x \in DOMAIN h[i].vals :
        h[i].vals[x].ty = "Number" => h[i].vals[x].n \in 0..MaxNum

(***************************************************************************)
(* Interpreter: the control stack.  A frame of kind "interp" is one active *)
(* call of Interpreter::interpret(stmts): pc is the position of the for    *)
(* loop over stmts, ph says which nested call the handler of stmts[pc]     *)
(* waits for, old is the handler's local old_environment.  A frame of kind *)
(* "call" is one invocation of a user function.  env0, brk and err are     *)
(* history: the environment at entry, whether a break of this loop has     *)
(* executed, and the error the try body ended with.                        *)
(***************************************************************************)
Frame(k, ss, env0) ==
    [k |-> k, ss |-> ss, pc |-> 1, ph |-> "", old |-> 0, sp |-> None,
     env0 |-> env0, brk |-> FALSE, err |-> ""]

NoResult == [kind |-> "none", msg |-> "", val |-> NilV, env0 |-> 0]
OkR(env0) == [kind |-> "Ok", msg |-> "", val |-> NilV, env0 |-> env0]
ErrR(msg, env0) == [kind |-> "Err", msg |-> msg, val |-> NilV, env0 |-> env0]
ValR(v, env0) == [kind |-> "Val", msg |-> "", val |-> v, env0 |-> env0]

Top == cstack[Len(cstack)]
Cur == Top.ss[Top.pc]
Below == SubSeq(cstack, 1, Len(cstack) - 1)

\* the handler of stmts[pc] is done: the for loop takes the next statement
NextStmt(f) == [f EXCEPT !.pc = @ + 1, !.ph = "", !.old = 0, !.brk = FALSE, !.err = ""]

Logged(l, e) == IF Len(l) < MaxLog THEN Append(l, e) ELSE l
Printed(o, v) == IF Len(o) < MaxOut THEN Append(o, v) ELSE o

\* the expression of a statement that has one
ExprOf(s) == IF s.t = "Var" THEN s.initializer ELSE s.expression

\* a statement whose expression is a call of a function
IsCallStmt(s) == s.t \in {"Expression", "Print", "Var"} /\ ExprOf(s).t = "Call"

\* the interpreter is about to run stmts[pc]
Ready ==
    /\ rstatus = "running"
    /\ cstack # <<>>
    /\ Top.k = "interp"
    /\ Top.ph = ""
    /\ result = NoResult
    /\ Top.pc <= Len(Top.ss)

\* a nested interpret call of the handler in phase ph has returned
Returned(ph) ==
    /\ rstatus = "running"
    /\ cstack # <<>>
    /\ Top.k = "interp"
    /\ Top.ph = ph
    /\ result # NoResult

\* the statement is done, interpret goes on
Continue(h, env) ==
    /\ cstack' = [cstack EXCEPT ![Len(cstack)] = NextStmt(Top)]
    /\ result' = NoResult
    /\ heap' = h
    /\ environment' = env

\* `?` or `return Err(msg)`: interpret returns the error to its caller
Propagate(msg, h, env) ==
    /\ cstack' = Below
    /\ result' = ErrR(msg, Top.env0)
    /\ heap' = h
    /\ environment' = env

\* the handler calls self.interpret(ss) and waits for it in phase ph
CallInterpret(f, ss, h, env) ==
    /\ cstack' = Append([cstack EXCEPT ![Len(cstack)] = f], Frame("interp", ss, env))
    /\ result' = NoResult
    /\ heap' = h
    /\ environment' = env

\* Stmt::Expression
ExecExpression ==
    /\ Ready /\ Cur.t = "Expression" /\ ~IsCallStmt(Cur)
    /\ LET v == evaluate(Cur.expression, heap, environment)
       IN /\ heap_in_range(v.heap)
          /\ IF v.ok THEN Continue(v.heap, environment)
             ELSE Propagate(v.msg, v.heap, environment)
    /\ log' = Logged(log, "Expression")
    /\ UNCHANGED <<pvars, specials, out, rstatus, reference, first>>

\* Stmt::Print
ExecPrint ==
    /\ Ready /\ Cur.t = "Print" /\ ~IsCallStmt(Cur)
    /\ LET v == evaluate(Cur.expression, heap, environment)
       IN /\ heap_in_range(v.heap)
          /\ IF v.ok
             THEN Continue(v.heap, environment) /\ out' = Printed(out, v.val)
             ELSE Propagate(v.msg, v.heap, environment) /\ out' = out
    /\ log' = Logged(log, "Print")
    /\ UNCHANGED <<pvars, specials, rstatus, reference, first>>

\* Stmt::Errors and Stmt::Exits: exit(1)
ExecExits ==
    /\ Ready /\ Cur.t \in {"Errors", "Exits"}
    /\ LET v == IF Cur.t = "Errors" THEN evaluate(Cur.expression, heap, environment)
                ELSE EvOk(NilV, heap)
       IN /\ heap_in_range(v.heap)
          /\ IF v.ok
             THEN /\ rstatus' = "exit"
                  /\ out' = IF Cur.t = "Errors" THEN Printed(out, v.val) ELSE out
                  /\ heap' = v.heap
                  /\ UNCHANGED <<cstack, result, environment>>
             ELSE Propagate(v.msg, v.heap, environment) /\ UNCHANGED <<rstatus, out>>
    /\ log' = Logged(log, Cur.t)
    /\ UNCHANGED <<pvars, specials, reference, first>>

\* Stmt::Var
ExecVar ==
    /\ Ready /\ Cur.t = "Var" /\ ~IsCallStmt(Cur)
    /\ LET v == evaluate(Cur.initializer, heap, environment)
       IN /\ heap_in_range(v.heap)
          /\ IF v.ok
             THEN Continue(define(v.heap, environment, Cur.name.lexeme, v.val),
                           environment)
             ELSE Propagate(v.msg, v.heap, environment)
    /\ log' = Logged(log, "Var")
    /\ UNCHANGED <<pvars, specials, out, rstatus, reference, first>>

\* fn make_function
make_function(fn_stmt, env) ==
    [ty |-> "Callable", n |-> env, s |-> fn_stmt.name.lexeme,
     arity |-> Len(fn_stmt.params), params |-> fn_stmt.params, body |-> fn_stmt.body]

\* Stmt::Function
ExecFunction ==
    /\ Ready /\ Cur.t = "Function"
    /\ Continue(define(heap, environment, Cur.name.lexeme,
                       make_function(Cur, environment)), environment)
    /\ log' = Logged(log, "Function")
    /\ UNCHANGED <<pvars, specials, out, rstatus, reference, first>>

\* Stmt::CmdFunction: a native function of arity 0 bound to the command
ExecCmdFunction ==
    /\ Ready /\ Cur.t = "CmdFunction"
    /\ Continue(define(heap, environment, Cur.name.lexeme,
                       [ty |-> "Native", n |-> 0, s |-> Cur.cmd]), environment)
    /\ log' = Logged(log, "CmdFunction")
    /\ UNCHANGED <<pvars, specials, out, rstatus, reference, first>>

\* Stmt::ReturnStmt
ExecReturnStmt ==
    /\ Ready /\ Cur.t = "ReturnStmt"
    /\ LET v == IF Cur.value # None THEN evaluate(Cur.value[1], heap, environment)
                ELSE EvOk(NilV, heap)
       IN /\ heap_in_range(v.heap)
          /\ IF v.ok
             THEN Continue(v.heap, environment) /\ specials' = Some(v.val)
             ELSE Propagate(v.msg, v.heap, environment) /\ specials' = specials
    /\ log' = Logged(log, "ReturnStmt")
    /\ UNCHANGED <<pvars, out, rstatus, reference, first>>

\* the frame of the innermost loop around the running statement, 0 when none
RECURSIVE InnermostLoop(_)
InnermostLoop(i) ==
    IF i = 0 \/ cstack[i].k = "call" THEN 0
    ELSE IF cstack[i].ph = "while" THEN i
    ELSE InnermostLoop(i - 1)

\* Stmt::BreakStmt
ExecBreakStmt ==
    /\ Ready /\ Cur.t = "BreakStmt"
    /\ LET l == InnermostLoop(Len(cstack) - 1)
       IN cstack' = IF l = 0 THEN Below ELSE [Below EXCEPT ![l].brk = TRUE]
    /\ result' = ErrR("break", Top.env0)
    /\ log' = Logged(log, "BreakStmt")
    /\ UNCHANGED <<pvars, heap, environment, specials, out, rstatus, reference, first>>

\* Stmt::Block: the child environment is made current, the statements run
BlockEnter ==
    /\ Ready /\ Cur.t = "Block"
    /\ LET new_environment == Len(heap) + 1
           old_environment == environment
       IN CallInterpret([Top EXCEPT !.ph = "block", !.old = old_environment],
                        Cur.statements, enclose(heap, environment), new_environment)
    /\ log' = Logged(log, "Block")
    /\ UNCHANGED <<pvars, specials, out, rstatus, reference, first>>

\* Stmt::Block with the restoration after the `?`: an error leaves the child
\* environment current
block_restore_after_try(old_environment, new_environment, block_result) ==
    IF block_result.kind = "Ok" THEN old_environment ELSE new_environment

\* Stmt::Block: the environment that is current once the nested interpret has
\* returned block_result: self.environment = old_environment, on every path
block_restore(old_environment, new_environment, block_result) == old_environment

\* Stmt::Block: self.environment = old_environment; block_result?;
\* the child frame, once nothing refers to it any more, is dropped
BlockExit ==
    /\ Returned("block")
    /\ LET env == block_restore(Top.old, environment, result)
           h == IF env = Top.old THEN SubSeq(heap, 1, Len(heap) - 1) ELSE heap
       IN IF result.kind = "Ok" THEN Continue(h, env)
          ELSE Propagate(result.msg, h, env)
    /\ UNCHANGED <<pvars, specials, out, log, rstatus, reference, first>>

\* Stmt::IfStmt: the elif branches in order, from branch i on: the first whose
\* predicate is truthy, as [ok, i, heap, msg]; i = 0 when none is truthy
RECURSIVE elif_scan(_, _, _, _)
RECURSIVE elif_scan_on(_, _, _, _)

\* a scan that goes on after a truthy predicate and keeps the last truthy one
elif_scan_on(branches, i, h, env) ==
    IF i > Len(branches) THEN [ok |-> TRUE, i |-> 0, heap |-> h, msg |-> ""]
    ELSE LET elif_truth_value == evaluate(branches[i][1], h, env)
             rest == elif_scan_on(branches, i + 1, elif_truth_value.heap, env)
         IN IF ~elif_truth_value.ok
            THEN [ok |-> FALSE, i |-> i, heap |-> elif_truth_value.heap,
                  msg |-> elif_truth_value.msg]
            ELSE IF is_truthy(elif_truth_value.val) /\ rest.ok /\ rest.i = 0
            THEN [ok |-> TRUE, i |-> i, heap |-> rest.heap, msg |-> ""]
            ELSE rest

elif_scan(branches, i, h, env) ==
    IF i > Len(branches) THEN [ok |-> TRUE, i |-> 0, heap |-> h, msg |-> ""]
    ELSE LET elif_truth_value == evaluate(branches[i][1], h, env)
         IN IF ~elif_truth_value.ok
            THEN [ok |-> FALSE, i |-> i, heap |-> elif_truth_value.heap,
                  msg |-> elif_truth_value.msg]
            ELSE IF is_truthy(elif_truth_value.val)
            THEN [ok |-> TRUE, i |-> i, heap |-> elif_truth_value.heap, msg |-> ""]
            ELSE elif_scan(branches, i + 1, elif_truth_value.heap, env)

\* Stmt::IfStmt: the predicates are evaluated and the branch chosen
IfEnter ==
    /\ Ready /\ Cur.t = "IfStmt"
    /\ LET truth_value == evaluate(Cur.predicate, heap, environment)
           waiting == [Top EXCEPT !.ph = "if"]
       IN IF ~truth_value.ok
          THEN heap_in_range(truth_value.heap)
               /\ Propagate(truth_value.msg, truth_value.heap, environment)
          ELSE IF is_truthy(truth_value.val)
          THEN heap_in_range(truth_value.heap)
               /\ CallInterpret(waiting, <<Cur.then>>, truth_value.heap, environment)
          ELSE LET e == elif_scan(Cur.elif_branches, 1, truth_value.heap, environment)
               IN /\ heap_in_range(e.heap)
                  /\ IF ~e.ok THEN Propagate(e.msg, e.heap, environment)
                     ELSE IF e.i # 0
                     THEN CallInterpret(waiting, <<Cur.elif_branches[e.i][2]>>,
                                        e.heap, environment)
                     ELSE IF Cur.els # None
                     THEN CallInterpret(waiting, <<Cur.els[1]>>, e.heap, environment)
                     ELSE Continue(e.heap, environment)
    /\ log' = Logged(log, "IfStmt")
    /\ UNCHANGED <<pvars, specials, out, rstatus, reference, first>>

\* Stmt::IfStmt: self.interpret(vec![branch])?
IfExit ==
    /\ Returned("if")
    /\ IF result.kind = "Ok" THEN Continue(heap, environment)
       ELSE Propagate(result.msg, heap, environment)
    /\ UNCHANGED <<pvars, specials, out, log, rstatus, reference, first>>

\* Stmt::TryStmt: let result = self.interpret(vec![tri])
TryEnter ==
    /\ Ready /\ Cur.t = "TryStmt"
    /\ CallInterpret([Top EXCEPT !.ph = "try"], <<Cur.tri>>, heap, environment)
    /\ log' = Logged(log, "TryStmt")
    /\ UNCHANGED <<pvars, specials, out, rstatus, reference, first>>

\* Stmt::TryStmt: match result: the statement run next and the phase it is
\* waited for in
try_match(res, tri, catch) ==
    IF res.kind = "Ok" THEN [ss |-> <<tri>>, ph |-> "try_ok"]
    ELSE [ss |-> <<catch>>, ph |-> "try_err"]

\* Stmt::TryStmt: match result { Ok(_) => self.interpret(vec![tri])?,
\*                               Err(_) => self.interpret(vec![catch])? }
TryMatch ==
    /\ Returned("try")
    /\ LET m == try_match(result, Cur.tri, Cur.catch)
       IN CallInterpret([Top EXCEPT !.ph = m.ph, !.err = result.msg],
                        m.ss, heap, environment)
    /\ UNCHANGED <<pvars, specials, out, log, rstatus, reference, first>>

\* Stmt::TryStmt: the `?` of either arm
TryExit ==
    /\ \/ Returned("try_ok")
       \/ Returned("try_err")
    /\ IF result.kind = "Ok" THEN Continue(heap, environment)
       ELSE Propagate(result.msg, heap, environment)
    /\ UNCHANGED <<pvars, specials, out, log, rstatus, reference, first>>

\* Stmt::WhileStmt: the loop condition; a truthy one runs the body
WhileCond ==
    /\ Ready /\ Cur.t = "WhileStmt"
    /\ LET c == evaluate(Cur.condition, heap, environment)
       IN /\ heap_in_range(c.heap)
          /\ IF ~c.ok THEN Propagate(c.msg, c.heap, environment)
             ELSE IF is_truthy(c.val)
             THEN CallInterpret([Top EXCEPT !.ph = "while"], <<Cur.body>>,
                                c.heap, environment)
             ELSE Continue(c.heap, environment)
    /\ log' = Logged(log, "WhileStmt")
    /\ UNCHANGED <<pvars, specials, out, rstatus, reference, first>>

\* Stmt::WhileStmt: match self.interpret(vec![body]): "loop" for Ok, "break"
\* for the sentinel, "return" for any other error
while_match(res) ==
    IF res.kind = "Ok" THEN "loop"
    ELSE IF res.msg = "break" THEN "break"
    ELSE "return"

\* Stmt::WhileStmt: the body has returned
WhileResult ==
    /\ Returned("while")
    /\ LET m == while_match(result)
       IN IF m = "loop"
          THEN /\ cstack' = [cstack EXCEPT ![Len(cstack)].ph = ""]
               /\ result' = NoResult
               /\ UNCHANGED <<heap, environment>>
          ELSE IF m = "break" THEN Continue(heap, environment)
          ELSE Propagate(result.msg, heap, environment)
    /\ UNCHANGED <<pvars, specials, out, log, rstatus, reference, first>>

\* fn interpret: the for loop over stmts is over: Ok(())
InterpretOk ==
    /\ rstatus = "running" /\ cstack # <<>>
    /\ Top.k = "interp" /\ Top.ph = "" /\ result = NoResult
    /\ Top.pc > Len(Top.ss)
    /\ cstack' = Below
    /\ result' = OkR(Top.env0)
    /\ UNCHANGED <<pvars, heap, environment, specials, out, log, rstatus,
                   reference, first>>

(***************************************************************************)
(* Calls of user functions.  Expr::evaluate of a Call is in expr.rs, which *)
(* is not part of the sources at hand; section 4.5 of the specification:   *)
(* evaluate callee then arguments left-to-right, verify arity, create a    *)
(* child environment of the captured environment, bind parameters, run the *)
(* body in an interpreter of its own (Interpreter::with_env), check the    *)
(* `return` special after each statement of the body, and read it as the   *)
(* result of the call (default Nil).                                       *)
(***************************************************************************)
RECURSIVE eval_args(_, _, _, _, _)
eval_args(args, i, h, env, acc) ==
    IF i > Len(args) THEN [ok |-> TRUE, vals |-> acc, heap |-> h, msg |-> ""]
    ELSE LET a == evaluate(args[i], h, env)
         IN IF ~a.ok THEN [ok |-> FALSE, vals |-> acc, heap |-> a.heap, msg |-> a.msg]
            ELSE eval_args(args, i + 1, a.heap, env, Append(acc, a.val))

RECURSIVE bind_params(_, _, _, _, _)
bind_params(h, env, params, vals, i) ==
    IF i > Len(params) THEN h
    ELSE bind_params(define(h, env, params[i].lexeme, vals[i]), env, params, vals, i + 1)

\* a statement whose expression is a call: callee and arguments are evaluated,
\* the invocation starts
CallEnter ==
    /\ Ready /\ IsCallStmt(Cur)
    /\ LET callee == evaluate(ExprOf(Cur).callee, heap, environment)
           args == eval_args(ExprOf(Cur).arguments, 1, callee.heap, environment, <<>>)
       IN IF ~callee.ok
          THEN Propagate(callee.msg, callee.heap, environment) /\ specials' = specials
          ELSE IF ~args.ok
          THEN Propagate(args.msg, args.heap, environment) /\ specials' = specials
          ELSE IF callee.val.ty # "Callable"
          THEN Propagate("not callable", args.heap, environment)
               /\ specials' = specials
          ELSE IF callee.val.arity # Len(args.vals)
          THEN Propagate("wrong number of arguments", args.heap, environment)
               /\ specials' = specials
          ELSE LET fun_env == Len(args.heap) + 1
                   h == bind_params(enclose(args.heap, callee.val.n), fun_env,
                                    callee.val.params, args.vals, 1)
               IN /\ heap_in_range(h)
                  /\ cstack' = Append([cstack EXCEPT ![Len(cstack)].ph = "call"],
                                      [Frame("call", callee.val.body, fun_env)
                                          EXCEPT !.old = environment, !.sp = specials])
                  /\ result' = NoResult
                  /\ heap' = h
                  /\ environment' = fun_env
                  /\ specials' = None
    /\ log' = Logged(log, Cur.t)
    /\ UNCHANGED <<pvars, out, rstatus, reference, first>>

\* the invocation runs the next statement of the body
CallStep ==
    /\ rstatus = "running" /\ cstack # <<>>
    /\ Top.k = "call" /\ Top.ph = "" /\ result = NoResult
    /\ specials = None /\ Top.pc <= Len(Top.ss)
    /\ CallInterpret([Top EXCEPT !.ph = "stmt"], <<Top.ss[Top.pc]>>, heap, environment)
    /\ UNCHANGED <<pvars, specials, out, log, rstatus, reference, first>>

\* the statement of the body has returned
CallStmtDone ==
    /\ rstatus = "running" /\ cstack # <<>>
    /\ Top.k = "call" /\ Top.ph = "stmt" /\ result # NoResult
    /\ IF result.kind = "Ok"
       THEN /\ cstack' = [cstack EXCEPT ![Len(cstack)].ph = "",
                                        ![Len(cstack)].pc = @ + 1]
            /\ result' = NoResult
            /\ UNCHANGED <<heap, environment, specials>>
       ELSE /\ cstack' = Below
            /\ result' = ErrR(result.msg, Top.old)
            /\ heap' = SubSeq(heap, 1, Len(heap) - 1)
            /\ environment' = Top.old
            /\ specials' = Top.sp
    /\ UNCHANGED <<pvars, out, log, rstatus, reference, first>>

\* the invocation ends: a return was recorded, or the body is over
CallReturn ==
    /\ rstatus = "running" /\ cstack # <<>>
    /\ Top.k = "call" /\ Top.ph = "" /\ result = NoResult
    /\ specials # None \/ Top.pc > Len(Top.ss)
    /\ cstack' = Below
    /\ result' = ValR(IF specials # None THEN specials[1] ELSE NilV, Top.old)
    /\ heap' = SubSeq(heap, 1, Len(heap) - 1)
    /\ environment' = Top.old
    /\ specials' = Top.sp
    /\ UNCHANGED <<pvars, out, log, rstatus, reference, first>>

\* the statement that made the call goes on with its value
CallResult ==
    /\ Returned("call")
    /\ IF result.kind # "Val"
       THEN Propagate(result.msg, heap, environment) /\ out' = out
       ELSE /\ Continue(IF Cur.t = "Var"
                        THEN define(heap, environment, Cur.name.lexeme, result.val)
                        ELSE heap, environment)
            /\ out' = IF Cur.t = "Print" THEN Printed(out, result.val) ELSE out
    /\ UNCHANGED <<pvars, specials, log, rstatus, reference, first>>

(***************************************************************************)
(* Stmt::BenchStmt.  The clock is outside the program: the time the body   *)
(* took is any of Durations, in microseconds.  What is printed is the      *)
(* number and, in s, the suffix ("us" stands for the suffix of             *)
(* microseconds); as_secs_f32 is taken down to whole seconds.              *)
(***************************************************************************)
Durations == {0, 9999, 10000, 10001, 9999999, 10000000, 10001000, 20000000}

\* the ladder of as_micros and as_millis comparisons
bench_line(micros) ==
    IF micros < 10000 THEN [ty |-> "Bench", n |-> micros, s |-> "us"]
    ELSE IF micros > 10000 THEN [ty |-> "Bench", n |-> micros \div 1000, s |-> "ms"]
    ELSE IF micros \div 1000 > 10000
    THEN [ty |-> "Bench", n |-> micros \div 1000000, s |-> "s"]
    ELSE [ty |-> "Bench", n |-> micros, s |-> "us"]

\* Stmt::BenchStmt: self.interpret(vec![body])
BenchEnter ==
    /\ Ready /\ Cur.t = "BenchStmt"
    /\ CallInterpret([Top EXCEPT !.ph = "bench"], <<Cur.body>>, heap, environment)
    /\ log' = Logged(log, "BenchStmt")
    /\ UNCHANGED <<pvars, specials, out, rstatus, reference, first>>

\* Stmt::BenchStmt: `?`, then the duration is printed
BenchExit ==
    /\ Returned("bench")
    /\ IF result.kind = "Ok"
       THEN /\ Continue(heap, environment)
            /\ \E micros \in Durations : out' = Printed(out, bench_line(micros))
       ELSE Propagate(result.msg, heap, environment) /\ out' = out
    /\ UNCHANGED <<pvars, specials, log, rstatus, reference, first>>

(***************************************************************************)
(* Stmt::Import.  The file system is outside the program: the file read is *)
(* any of Files, or cannot be read.  The imported script is scanned and    *)
(* parsed at once and then run by an Interpreter of its own, whose         *)
(* environment is a new root frame and whose specials are empty; the       *)
(* importing interpreter waits in phase "import", old and sp holding its   *)
(* environment and specials meanwhile.                                     *)
(***************************************************************************)
Unreadable == <<"<unreadable>">>

Files ==
    { \* var n = 2 ; fun f ( ) start end n = 3 ;
      <<"var", "n", "=", "2", ";", "fun", "f", "(", ")", "start", "end",
        "n", "=", "3", ";">>,
      \* u ;
      <<"u", ";">>,
      \* print ;
      <<"print", ";">>,
      \* print 1
      <<"print", "1">>,
      Unreadable }

\* Parser::parse, the whole of it
RECURSIVE parse(_, _, _)

\* parse: match stmt { Ok(s) => .., Err(msg) => .. }
parse_match(stmt, ss, es) ==
    IF stmt.kind = "ok" THEN parse(stmt.p, Append(ss, stmt.val), es)
    ELSE IF stmt.kind = "err"
    THEN parse(synchronize(stmt.p), ss, Append(es, stmt.val))
    ELSE stmt

parse(p, ss, es) ==
    IF ~is_at_end(p) THEN parse_match(Parse("declaration", p), ss, es)
    ELSE IF es = <<>> THEN Ok(p, ss) ELSE Err(p, es)

\* println!("Error 108:\n{}", msg); exit(1)
Error108(h) ==
    /\ out' = Printed(out, StringV("Error 108:"))
    /\ rstatus' = "exit"
    /\ heap' = h
    /\ UNCHANGED <<cstack, result, environment, specials>>

\* fn run, from the result of parser.parse() up to the call of
\* interpreter.interpret(stmts_refs) in a new Interpreter
run(parsed, h) ==
    IF parsed.kind = "err" THEN Error108(h)
    ELSE IF parsed.kind # "ok"
    THEN /\ rstatus' = "exit"
         /\ heap' = h
         /\ UNCHANGED <<cstack, result, environment, specials, out>>
    ELSE /\ cstack' = Append([cstack EXCEPT ![Len(cstack)].ph = "import",
                                            ![Len(cstack)].old = environment,
                                            ![Len(cstack)].sp = specials],
                             Frame("interp", parsed.val, Len(h) + 1))
         /\ result' = NoResult
         /\ heap' = Append(h, NewFrame(0))
         /\ environment' = Len(h) + 1
         /\ specials' = None
         /\ UNCHANGED <<out, rstatus>>

\* the closure run_file: the file is read, run_string runs its contents
run_file(file, h) ==
    IF file = Unreadable THEN Error108(h)
    ELSE run(parse([tokens |-> Scan(file), current |-> 0, next_id |-> 0], <<>>, <<>>), h)

\* Stmt::Import: the path is evaluated, the file read, parsed and started
ExecImport ==
    /\ Ready /\ Cur.t = "Import"
    /\ LET value == evaluate(Cur.expression, heap, environment)
       IN IF ~value.ok
          THEN Propagate(value.msg, value.heap, environment)
               /\ UNCHANGED <<specials, out, rstatus>>
          ELSE \E file \in Files : run_file(file, value.heap)
    /\ log' = Logged(log, "Import")
    /\ UNCHANGED <<pvars, reference, first>>

\* Stmt::Import: match run_file(..) { Ok(_) => {}, Err(msg) => .. }
ImportExit ==
    /\ Returned("import")
    /\ IF result.kind = "Ok"
       THEN /\ cstack' = [cstack EXCEPT ![Len(cstack)] = [NextStmt(Top) EXCEPT !.sp = None]]
            /\ result' = NoResult
            /\ heap' = SubSeq(heap, 1, Len(heap) - 1)
            /\ environment' = Top.old
            /\ specials' = Top.sp
            /\ UNCHANGED <<out, rstatus>>
       ELSE Error108(heap)
    /\ UNCHANGED <<pvars, log, reference, first>>

(***************************************************************************)
(* Parser::parse, one iteration of its while loop per step, and the driver *)
(* that runs the parsed statements (main.rs, not part of the sources at    *)
(* hand): one call of interpret on the whole program; its result ends the  *)
(* run.                                                                    *)
(***************************************************************************)
TheParser == [tokens |-> tokens, current |-> current, next_id |-> next_id]

Parsing == pstatus = "parsing" /\ ~is_at_end(TheParser)

\* parse: Ok(s) => stmts.push(s)
push_stmt(stmt) ==
    /\ stmt.kind = "ok"
    /\ stmts' = Append(stmts, stmt.val)
    /\ current' = stmt.p.current
    /\ next_id' = stmt.p.next_id

ParseDeclOk ==
    /\ Parsing
    /\ push_stmt(Parse("declaration", TheParser))
    /\ UNCHANGED <<tokens, errs, pstatus, rvars, reference, first>>

\* parse: Err(msg) => { errs.push(msg); self.synchronize() }
push_err(stmt) ==
    /\ stmt.kind = "err"
    /\ errs' = Append(errs, stmt.val)
    /\ current' = synchronize(stmt.p).current
    /\ next_id' = stmt.p.next_id

ParseDeclErr ==
    /\ Parsing
    /\ push_err(Parse("declaration", TheParser))
    /\ UNCHANGED <<tokens, stmts, pstatus, rvars, reference, first>>

\* declaration did not return: consume called exit(1), or a panic!
leave_process(stmt) ==
    /\ stmt.kind \in {"exit", "panic"}
    /\ pstatus' = stmt.kind
    /\ current' = stmt.p.current
    /\ next_id' = stmt.p.next_id

ParseDeclExit ==
    /\ Parsing
    /\ leave_process(Parse("declaration", TheParser))
    /\ UNCHANGED <<tokens, stmts, errs, rvars, reference, first>>

\* parse: if errs.is_empty() { Ok(stmts) } else { Err(errs.join("\n")) }
ParseFinish ==
    /\ pstatus = "parsing" /\ is_at_end(TheParser)
    /\ pstatus' = IF errs = <<>> THEN "ok" ELSE "err"
    /\ UNCHANGED <<tokens, current, next_id, stmts, errs, rvars, reference, first>>

\* the driver: interpreter.interpret(stmts) in the global environment
StartRun ==
    /\ pstatus = "ok" /\ rstatus = "idle"
    /\ rstatus' = "running"
    /\ cstack' = <<Frame("interp", stmts, environment)>>
    /\ UNCHANGED <<pvars, result, environment, specials, heap, out, log,
                   reference, first>>

\* the driver: interpret has returned
RunEnd ==
    /\ rstatus = "running" /\ cstack = <<>> /\ result # NoResult
    /\ rstatus' = IF result.kind = "Ok" THEN "ok" ELSE "err"
    /\ UNCHANGED <<pvars, cstack, result, environment, specials, heap, out, log,
                   reference, first>>

\* the program is over: parse failed, or the run ended
Over == pstatus \in {"err", "exit", "panic"} \/ rstatus \in {"ok", "err", "exit"}

\* what a program did, as seen from outside
Observed == [parsed |-> pstatus, ended |-> rstatus, out |-> out, error |-> result.msg]

InitRun ==
    /\ cstack = <<>>
    /\ result = NoResult
    /\ environment = 1
    /\ specials = None
    /\ heap = <<NewFrame(0)>>
    /\ out = <<>>
    /\ log = <<>>
    /\ rstatus = "idle"

\* a second program is run from scratch after the first, to compare the two
RunReference ==
    /\ Over /\ reference.lexemes # <<>>
    /\ first' = Some([form |-> reference.form, obs |-> Observed])
    /\ tokens' = Scan(reference.lexemes)
    /\ reference' = [form |-> "", lexemes |-> <<>>]
    /\ current' = 0 /\ next_id' = 0 /\ stmts' = <<>> /\ errs' = <<>>
    /\ pstatus' = "parsing"
    /\ cstack' = <<>>
    /\ result' = NoResult
    /\ environment' = 1
    /\ specials' = None
    /\ heap' = <<NewFrame(0)>>
    /\ out' = <<>>
    /\ log' = <<>>
    /\ rstatus' = "idle"

(***************************************************************************)
(* The programs run, as sequences of lexemes.                              *)
(***************************************************************************)
\* for ( var i = 0 ; i < 3 ; i = i + 1 ) print i ;
ForProgram ==
    <<"for", "(", "var", "i", "=", "0", ";", "i", "<", "3", ";", "i", "=", "i", "+",
      "1", ")", "print", "i", ";">>

\* var x = 0 ; try start x = x + 1 ; print x ; end catch print 9 ; print x ;
TryOkProgram ==
    <<"var", "x", "=", "0", ";", "try", "start", "x", "=", "x", "+", "1", ";", "print",
      "x", ";", "end", "catch", "print", "9", ";", "print", "x", ";">>

\* fun f ( ) start while true start return 1 ; end end print f ( ) ;
ReturnInLoopProgram ==
    <<"fun", "f", "(", ")", "start", "while", "true", "start", "return", "1", ";",
      "end", "end", "print", "f", "(", ")", ";">>

\* fun f ( ) start start return 1 ; print 2 ; return 3 ; end print 4 ; end print f ( ) ;
ReturnInBlockProgram ==
    <<"fun", "f", "(", ")", "start", "start", "return", "1", ";", "print", "2", ";",
      "return", "3", ";", "end", "print", "4", ";", "end", "print", "f", "(", ")", ";">>

\* print 1 print 2 ;
MissingSemicolonProgram ==
    <<"print", "1", "print", "2", ";">>

\* var n = 0 ; while n < 2 start n = n + 1 ; try break ; catch print 1 ; end print 2 ;
BreakInTryProgram ==
    <<"var", "n", "=", "0", ";", "while", "n", "<", "2", "start", "n", "=", "n", "+",
      "1", ";", "try", "break", ";", "catch", "print", "1", ";", "end", "print", "2",
      ";">>

\* var a ; for ; ; a = 1 break ; print a | f ;
IdsProgram ==
    <<"var", "a", ";", "for", ";", ";", "a", "=", "1", "break", ";", "print", "a",
      "|", "f", ";">>

\* programs over the statements and the expressions of the language
StatementPrograms ==
    { \* print a or b xor c ;
      <<"print", "a", "or", "b", "xor", "c", ";">>,
      \* print a nor b xor c ;
      <<"print", "a", "nor", "b", "xor", "c", ";">>,
      \* print a xor b and c ; print a and b == c ; print a == b < c ;
      <<"print", "a", "xor", "b", "and", "c", ";", "print", "a", "and", "b", "==", "c",
        ";", "print", "a", "==", "b", "<", "c", ";">>,
      \* var x = 1 ; start var x = 2 ; print x ; end print x ;
      <<"var", "x", "=", "1", ";", "start", "var", "x", "=", "2", ";", "print", "x", ";",
        "end", "print", "x", ";">>,
      \* var i = 0 ; while i < 3 start print i ; i = i + 1 ; end
      <<"var", "i", "=", "0", ";", "while", "i", "<", "3", "start", "print", "i", ";",
        "i", "=", "i", "+", "1", ";", "end">>,
      \* for var i = 0 ; i < 3 ; i = i + 1 print i ;
      <<"for", "var", "i", "=", "0", ";", "i", "<", "3", ";", "i", "=", "i", "+", "1",
        "print", "i", ";">>,
      \* try start u ; end catch start print "s" ; end
      <<"try", "start", "u", ";", "end", "catch", "start", "print", "\"s\"", ";", "end">>,
      \* fun g ( a , b ) start return a + b ; end print g ( 1 , 2 ) ; var y = g ( 2 , 2 ) ; print y ; g ( 1 ) ;
      <<"fun", "g", "(", "a", ",", "b", ")", "start", "return", "a", "+", "b", ";",
        "end", "print", "g", "(", "1", ",", "2", ")", ";", "var", "y", "=", "g", "(",
        "2", ",", "2", ")", ";", "print", "y", ";", "g", "(", "1", ")", ";">>,
      \* fun f ( ) start print 1 ; return ; print 2 ; end print f ( ) ; print f ;
      <<"fun", "f", "(", ")", "start", "print", "1", ";", "return", ";", "print", "2",
        ";", "end", "print", "f", "(", ")", ";", "print", "f", ";">>,
      \* var x = 2 ; if x == 1 print 1 ; elif x == 2 print 2 ; elif x == 2 print 3 ; else print 4 ; if x == 3 print 5 ; elif u print 6 ; else print 7 ;
      <<"var", "x", "=", "2", ";", "if", "x", "==", "1", "print", "1", ";", "elif", "x",
        "==", "2", "print", "2", ";", "elif", "x", "==", "2", "print", "3", ";", "else",
        "print", "4", ";", "if", "x", "==", "3", "print", "5", ";", "elif", "u", "print",
        "6", ";", "else", "print", "7", ";">>,
      \* print 1 ; if false errors "s" ; else exits ; print 2 ;
      <<"print", "1", ";", "if", "false", "errors", "\"s\"", ";", "else", "exits", ";",
        "print", "2", ";">>,
      \* print 1 ; errors "s" ; print 2 ;
      <<"print", "1", ";", "errors", "\"s\"", ";", "print", "2", ";">>,
      \* print ( 1 < 2 and ! false ) or u ; print nil xor 1 ; print 0 nor nil ; print - 1 + 2 * 2 ; print 1 != 2 ; print u ;
      <<"print", "(", "1", "<", "2", "and", "!", "false", ")", "or", "u", ";", "print",
        "nil", "xor", "1", ";", "print", "0", "nor", "nil", ";", "print", "-", "1", "+",
        "2", "*", "2", ";", "print", "1", "!=", "2", ";", "print", "u", ";">>,
      \* var i = 0 ; while true start i = i + 1 ; end
      <<"var", "i", "=", "0", ";", "while", "true", "start", "i", "=", "i", "+", "1",
        ";", "end">>,
      \* fun ls gets "ls" ; print 1 ;
      <<"fun", "ls", "gets", "\"ls\"", ";", "print", "1", ";">>,
      \* var f = fun ( a ) start end ; print 1 | f ; x . y = [ 1 , 2 ] ; a [ 0 ] ; print ;
      <<"var", "f", "=", "fun", "(", "a", ")", "start", "end", ";", "print", "1", "|",
        "f", ";", "x", ".", "y", "=", "[", "1", ",", "2", "]", ";", "a", "[", "0", "]",
        ";", "print", ";">> }

\* if statements whose predicates assign, fail, or are truthy more than once
IfPrograms ==
    { \* var n = 0 ; if n print 1 ; elif n = 1 print 2 ; elif n = 2 print 3 ;
      \* else print 4 ; print n ;
      <<"var", "n", "=", "0", ";", "if", "n", "print", "1", ";",
        "elif", "n", "=", "1", "print", "2", ";",
        "elif", "n", "=", "2", "print", "3", ";",
        "else", "print", "4", ";", "print", "n", ";">>,
      \* var n = 0 ; if n = 1 print 1 ; elif n = 2 print 2 ; else print 3 ; print n ;
      <<"var", "n", "=", "0", ";", "if", "n", "=", "1", "print", "1", ";",
        "elif", "n", "=", "2", "print", "2", ";", "else", "print", "3", ";",
        "print", "n", ";">>,
      \* var n = 1 ; if n = 0 print 1 ; elif n = 0 print 2 ; else print 3 ; print n ;
      <<"var", "n", "=", "1", ";", "if", "n", "=", "0", "print", "1", ";",
        "elif", "n", "=", "0", "print", "2", ";", "else", "print", "3", ";",
        "print", "n", ";">>,
      \* var n = 1 ; if false print 1 ; elif u print 2 ; elif n = 2 print 3 ;
      \* else print 4 ; print n ;
      <<"var", "n", "=", "1", ";", "if", "false", "print", "1", ";",
        "elif", "u", "print", "2", ";", "elif", "n", "=", "2", "print", "3", ";",
        "else", "print", "4", ";", "print", "n", ";">>,
      \* try if true u ; elif true print 2 ; else print 3 ; catch print 4 ;
      <<"try", "if", "true", "u", ";", "elif", "true", "print", "2", ";",
        "else", "print", "3", ";", "catch", "print", "4", ";">> }

\* bench and import statements
BenchImportPrograms ==
    { \* bench start print 1 ; end print 2 ;
      <<"bench", "start", "print", "1", ";", "end", "print", "2", ";">>,
      \* try bench u ; catch print 4 ;
      <<"try", "bench", "u", ";", "catch", "print", "4", ";">>,
      \* var n = 1 ; import "s" ; print n ; print f ;
      <<"var", "n", "=", "1", ";", "import", "\"s\"", ";", "print", "n", ";",
        "print", "f", ";">>,
      \* try import "s" ; catch print 4 ; print 2 ;
      <<"try", "import", "\"s\"", ";", "catch", "print", "4", ";", "print", "2", ";">>,
      \* try import u ; catch print 4 ;
      <<"try", "import", "u", ";", "catch", "print", "4", ";">> }

\* programs with parse errors
ParseErrorPrograms ==
    { \* print ( 1 ; print 2 ;
      <<"print", "(", "1", ";", "print", "2", ";">>,
      \* start print 1 ;
      <<"start", "print", "1", ";">>,
      \* print ; print 2 ;
      <<"print", ";", "print", "2", ";">>,
      \* print ; 1 = 2 ; print 3 ;
      <<"print", ";", "1", "=", "2", ";", "print", "3", ";">>,
      \* try print 1 ; print 2 ;
      <<"try", "print", "1", ";", "print", "2", ";">>,
      \* fun len ( a ) start end print 1 ;
      <<"fun", "len", "(", "a", ")", "start", "end", "print", "1", ";">> }
      \* fun <native> ( a ) start print a ; end print 1 ;
      \cup { <<"fun", name, "(", "a", ")", "start", "print", "a", ";", "end",
                "print", "1", ";">> : name \in NATIVE_FUNCTIONS }
      \* fun <native> gets "ls" ; print 1 ;
      \cup { <<"fun", name, "gets", "\"ls\"", ";", "print", "1", ";">> :
                 name \in NATIVE_FUNCTIONS }

Curated ==
    { ForProgram, TryOkProgram, ReturnInLoopProgram, ReturnInBlockProgram,
      BreakInTryProgram, IdsProgram, MissingSemicolonProgram }
      \cup StatementPrograms \cup IfPrograms \cup BenchImportPrograms
      \cup ParseErrorPrograms

\* statements put into a loop body: simple ones, and try, block and if around them
Atoms == { <<"print", "1", ";">>, <<"u", ";">>, <<"break", ";">> }

Returns == { <<"return", "1", ";">>, <<"return", ";">> }

Compound(B) ==
    B \cup { <<"try">> \o a \o <<"catch">> \o b : a \in B, b \in B }
      \cup { <<"start">> \o a \o b \o <<"end">> : a \in B, b \in B }
      \cup { <<"if", "true">> \o a \o <<"else">> \o b : a \in B, b \in B }
      \cup { <<"if", "false">> \o a \o <<"elif", "true">> \o b : a \in B, b \in B }

Deep(B) ==
    { <<"try", "start">> \o a \o b \o <<"end", "catch">> \o c :
          a \in B, b \in B, c \in B }
      \cup { <<"start", "try">> \o a \o <<"catch">> \o b \o c \o <<"end">> :
                 a \in B, b \in B, c \in B }

\* a function whose body is a loop around the statement, called once
FunLoop(S) ==
    <<"var", "n", "=", "0", ";", "fun", "f", "(", ")", "start",
      "while", "n", "<", "2", "start", "n", "=", "n", "+", "1", ";">> \o S \o
    <<"end", "print", "3", ";", "end", "print", "f", "(", ")", ";", "print", "4", ";">>

\* a loop in a loop around the statement
NestedLoop(S) ==
    <<"var", "n", "=", "0", ";", "while", "n", "<", "2", "start",
      "n", "=", "n", "+", "1", ";", "var", "m", "=", "0", ";",
      "while", "m", "<", "2", "start", "m", "=", "m", "+", "1", ";">> \o S \o
    <<"end", "print", "5", ";", "end", "print", "6", ";">>

Generated ==
    { FunLoop(S) : S \in Compound(Atoms \cup Returns) \cup Deep(Atoms \cup Returns) }
      \cup { NestedLoop(S) : S \in Compound(Atoms) \cup Deep(Atoms) }

(***************************************************************************)
(* for statements, each with the block it stands for.  The loop runs over  *)
(* a global i; the initializer, when present, declares an i of its own.    *)
(***************************************************************************)
ForInit(present) == IF present THEN <<"var", "i", "=", "1", ";">> ELSE <<>>
ForCond(present) == IF present THEN <<"i", "<", "3">> ELSE <<>>
ForIncr(present) == IF present THEN <<"i", "=", "i", "+", "1">> ELSE <<>>
ForBody ==
    <<"start", "print", "i", ";", "if", "2", "<", "i", "break", ";",
      "i", "=", "i", "+", "1", ";", "end">>
ForBefore == <<"var", "i", "=", "0", ";">>
ForAfter == <<"print", "i", ";">>

\* for ( init cond ; incr ) body, as the grammar has it
ForGrammar(init, cond, incr) ==
    ForBefore \o <<"for", "(">> \o (IF init THEN ForInit(TRUE) ELSE <<";">>) \o
    ForCond(cond) \o <<";">> \o ForIncr(incr) \o <<")">> \o ForBody \o ForAfter

\* the same without the parentheses; an absent increment is then a lone `)`
ForBare(init, cond, incr) ==
    ForBefore \o <<"for">> \o (IF init THEN ForInit(TRUE) ELSE <<";">>) \o
    ForCond(cond) \o <<";">> \o (IF incr THEN ForIncr(TRUE) ELSE <<")">>) \o
    ForBody \o ForAfter

\* { init; while (cond) { body; incr; } }, an absent condition being true
ForBlock(init, cond, incr) ==
    ForBefore \o <<"start">> \o ForInit(init) \o <<"while">> \o
    (IF cond THEN ForCond(TRUE) ELSE <<"true">>) \o <<"start">> \o ForBody \o
    (IF incr THEN ForIncr(TRUE) \o <<";">> ELSE <<>>) \o <<"end", "end">> \o ForAfter

\* n items separated by commas
Listed(item, n) ==
    IF n = 0 THEN <<>>
    ELSE [i \in 1..(2 * n - 1) |-> IF i % 2 = 1 THEN item ELSE ","]

\* a call with n arguments, a function with n parameters, an anonymous
\* function with n parameters
ListProgram(form, n) ==
    IF form = "call" THEN <<"f", "(">> \o Listed("1", n) \o <<")", ";">>
    ELSE IF form = "fun"
    THEN <<"fun", "g", "(">> \o Listed("a", n) \o <<")", "start", "end">>
    ELSE <<"var", "h", "=", "fun", "(">> \o Listed("a", n) \o
         <<")", "start", "end", ";">>

\* every sequence of at most MaxSoup of these lexemes, as it is and after `[`
Words ==
    UNION { [1..n -> {";", "print", "1", "+", ",", "]", "start", "end"}] :
               n \in 0..MaxSoup }

Soup == Words \cup { <<"[">> \o s : s \in Words }

NoReference == [form |-> "", lexemes |-> <<>>]

Programs ==
    { [src |-> s, ref |-> NoReference] : s \in Curated \cup Generated \cup Soup }
      \cup { [src |-> ListProgram(form, n), ref |-> NoReference] :
                 form \in {"call", "fun", "anon"},
                 n \in {MaxArgs - 1, MaxArgs, MaxArgs + 1} }
      \cup { [src |-> ForGrammar(a, b, c),
              ref |-> [form |-> "grammar", lexemes |-> ForBlock(a, b, c)]] :
                 a \in BOOLEAN, b \in BOOLEAN, c \in BOOLEAN }
      \cup { [src |-> ForBare(a, b, c),
              ref |-> [form |-> IF c THEN "bare" ELSE "lone",
                       lexemes |-> ForBlock(a, b, c)]] :
                 a \in BOOLEAN, b \in BOOLEAN, c \in BOOLEAN }

(***************************************************************************)
(* The specification.                                                      *)
(***************************************************************************)
InitParse(prog) ==
    /\ tokens = Scan(prog.src)
    /\ reference = prog.ref
    /\ first = None
    /\ current = 0
    /\ next_id = 0
    /\ stmts = <<>>
    /\ errs = <<>>
    /\ pstatus = "parsing"

Init == \E prog \in Programs : InitParse(prog) /\ InitRun

Next ==
    \/ ParseDeclOk \/ ParseDeclErr \/ ParseDeclExit \/ ParseFinish
    \/ StartRun \/ RunEnd \/ RunReference
    \/ ExecExpression \/ ExecPrint \/ ExecExits \/ ExecVar \/ ExecFunction
    \/ ExecCmdFunction \/ ExecReturnStmt \/ ExecBreakStmt
    \/ BlockEnter \/ BlockExit \/ IfEnter \/ IfExit
    \/ TryEnter \/ TryMatch \/ TryExit \/ WhileCond \/ WhileResult
    \/ InterpretOk \/ CallEnter \/ CallStep \/ CallStmtDone \/ CallReturn
    \/ CallResult \/ BenchEnter \/ BenchExit \/ ExecImport \/ ImportExit

Spec == Init /\ [][Next]_vars

\* the steps of the driver and of Interpreter::interpret
Run ==
    \/ StartRun \/ RunEnd
    \/ ExecExpression \/ ExecPrint \/ ExecExits \/ ExecVar \/ ExecFunction
    \/ ExecCmdFunction \/ ExecReturnStmt \/ ExecBreakStmt
    \/ BlockEnter \/ BlockExit \/ IfEnter \/ IfExit
    \/ TryEnter \/ TryMatch \/ TryExit \/ WhileCond \/ WhileResult
    \/ InterpretOk \/ CallEnter \/ CallStep \/ CallStmtDone \/ CallReturn
    \/ CallResult \/ BenchEnter \/ BenchExit \/ ExecImport \/ ImportExit

\* the interpreter is one sequential thread that nothing suspends: while a step
\* of the run is possible, one is taken
FairSpec == Spec /\ WF_vars(Run)

(***************************************************************************)
(* The ids of the expression nodes of a tree, one entry per node.          *)
(***************************************************************************)
RECURSIVE ExprIds(_)
RECURSIVE ExprsIds(_, _)
RECURSIVE StmtIds(_)
RECURSIVE StmtsIds(_, _)
RECURSIVE BranchesIds(_, _)

ExprIds(e) ==
    <<e.id>> \o
    (CASE e.t \in {"Literal", "Variable"} -> <<>>
       [] e.t = "Assign" -> ExprIds(e.value)
       [] e.t = "Set" -> ExprIds(e.object) \o ExprIds(e.value)
       [] e.t = "Get" -> ExprIds(e.object)
       [] e.t = "Call" -> ExprIds(e.callee) \o ExprsIds(e.arguments, 1)
       [] e.t \in {"Binary", "Logical"} -> ExprIds(e.left) \o ExprIds(e.right)
       [] e.t = "Unary" -> ExprIds(e.right)
       [] e.t = "Grouping" -> ExprIds(e.expression)
       [] e.t = "Array" -> ExprsIds(e.elements, 1)
       [] e.t = "AnonFunction" -> StmtsIds(e.body, 1))

ExprsIds(es, i) ==
    IF i > Len(es) THEN <<>>
    ELSE IF i = Len(es) THEN ExprIds(es[i])
    ELSE LET m == (i + Len(es)) \div 2
         IN ExprsIds(SubSeq(es, i, m), 1) \o ExprsIds(es, m + 1)

StmtIds(s) ==
    CASE s.t \in {"Expression", "Print", "Input", "Errors", "Import"} ->
            ExprIds(s.expression)
      [] s.t = "Var" -> ExprIds(s.initializer)
      [] s.t = "Block" -> StmtsIds(s.statements, 1)
      [] s.t = "IfStmt" ->
            ExprIds(s.predicate) \o StmtIds(s.then) \o
            BranchesIds(s.elif_branches, 1) \o
            (IF s.els = None THEN <<>> ELSE StmtIds(s.els[1]))
      [] s.t = "TryStmt" -> StmtIds(s.tri) \o StmtIds(s.catch)
      [] s.t = "WhileStmt" -> ExprIds(s.condition) \o StmtIds(s.body)
      [] s.t = "BenchStmt" -> StmtIds(s.body)
      [] s.t = "Function" -> StmtsIds(s.body, 1)
      [] s.t = "ReturnStmt" -> IF s.value = None THEN <<>> ELSE ExprIds(s.value[1])
      [] s.t \in {"CmdFunction", "BreakStmt", "Exits"} -> <<>>

StmtsIds(ss, i) ==
    IF i > Len(ss) THEN <<>> ELSE StmtIds(ss[i]) \o StmtsIds(ss, i + 1)

BranchesIds(bs, i) ==
    IF i > Len(bs) THEN <<>>
    ELSE ExprIds(bs[i][1]) \o StmtIds(bs[i][2]) \o BranchesIds(bs, i + 1)

\* an invocation of a user function is running
InCall == \E i \in 1..Len(cstack) : cstack[i].k = "call"

(***************************************************************************)
(* The properties.                                                         *)
(***************************************************************************)

\* C1: the catch statement of a try runs iff the try body ended with a runtime
\* error: a handler that runs the catch holds an error that is not the break
\* sentinel, and a handler that does not run it holds no error.
CatchIffRuntimeError ==
    \A i \in 1..Len(cstack) :
        /\ cstack[i].ph = "try_err" => cstack[i].err \notin {"", "break"}
        /\ cstack[i].ph = "try_ok" => cstack[i].err = ""

\* C2: when the try body has succeeded nothing further is run: the handler of
\* a TryStmt never starts a second interpret call after an Ok.
TryBodyRunsOnce ==
    \A i \in 1..Len(cstack) : cstack[i].ph # "try_ok"

\* C3: a break executed inside a loop ends that loop: from the break on, until
\* the handler of the innermost enclosing while has finished, the interpreter
\* only unwinds with the break sentinel; no statement and no iteration runs.
BreakEndsInnermostLoop ==
    \A i \in 1..Len(cstack) :
        cstack[i].brk => (result.kind = "Err" /\ result.msg = "break")

\* C4: once a return has executed in an invocation, no statement of that
\* invocation starts any more and the recorded value stays the one of the
\* first return until the invocation ends.
ReturnEndsInvocation ==
    [][(InCall /\ specials # None)
          => (log' = log /\ (InCall' => specials' = specials))]_vars

\* C5: an invocation that has executed a return eventually completes, also
\* when the return is in a loop whose condition stays truthy.
ReturnCompletesInvocation ==
    (InCall /\ specials # None) ~> ~InCall

\* C6: whenever interpret is between two statements the current environment is
\* the one current when this interpret call was entered, and whenever a call
\* has returned, Ok or Err, the current environment is the one of its entry.
BlockRestoresEnvironment ==
    /\ (cstack # <<>> /\ Top.k = "interp" /\ Top.ph = "" /\ result = NoResult)
          => environment = Top.env0
    /\ result # NoResult => environment = result.env0

\* a loop body that is a block has been left by the break sentinel, the
\* environment of the loop current again
BlockLeftByBreak ==
    /\ Returned("while")
    /\ Cur.body.t = "Block"
    /\ result.kind = "Err" /\ result.msg = "break"
    /\ environment = Top.env0

\* C7: a for statement, with the initializer, the condition and the increment
\* present or absent, is observed to do what the block
\* { init; while (cond) { body; incr; } } does.
ForAsBlock ==
    (first # None /\ Over) => Observed = first[1].obs

\* C8: the parenthesised for statement of the grammar parses without a parse
\* error, and running it prints 0, 1, 2.
ForParenthesised ==
    (tokens = Scan(ForProgram) /\ Over)
        => /\ pstatus = "ok"
           /\ rstatus = "ok"
           /\ out = <<NumberV(0), NumberV(1), NumberV(2)>>

\* C9: any two expression nodes of the statements parsed so far have
\* different ids, and every id is smaller than next_id.
UniqueIds ==
    LET ids == StmtsIds(stmts, 1)
    IN /\ \A i, j \in 1..Len(ids) : i # j => ids[i] # ids[j]
       /\ \A i \in 1..Len(ids) : ids[i] < next_id

\* a parse is over that built the implicit Nil and true literals, an
\* assignment in a desugared for, and a pipe call
IdsOfDesugaredNodes ==
    /\ pstatus = "ok"
    /\ Len(stmts) = 3
    /\ stmts[1].t = "Var" /\ stmts[1].initializer.value = NilV
    /\ stmts[2].t = "WhileStmt" /\ stmts[2].condition.value = TrueV
    /\ stmts[2].body.statements[2].expression.t = "Assign"
    /\ stmts[3].expression.t = "Call"
    /\ Len(StmtsIds(stmts, 1)) = 7
    /\ next_id = 8

\* C10: parse never leaves the process on a parse error: its run ends with
\* Ok or with Err carrying the collected messages.
ParseNeverTerminatesProcess ==
    pstatus \notin {"exit", "panic"}

\* C11: at every binary level the right operand is parsed at the next-tighter
\* level: `a or b xor c` parses as Logical(a, or, Logical(b, xor, c)) and
\* `a nor b xor c` as Logical(a, nor, Logical(b, xor, c)).
PrecedenceLadder ==
    \A s \in { <<"print", "a", "or", "b", "xor", "c", ";">>,
               <<"print", "a", "nor", "b", "xor", "c", ";">> } :
        (tokens = Scan(s) /\ pstatus # "parsing")
            => /\ pstatus = "ok"
               /\ stmts[1].expression.t = "Logical"
               /\ stmts[1].expression.operator.lexeme = s[3]
               /\ stmts[1].expression.right.t = "Logical"
               /\ stmts[1].expression.right.operator.lexeme = "xor"
               /\ stmts[1].expression.right.right.name.lexeme = "c"

\* C12: a list of up to 255 arguments or parameters parses, in a call, in a
\* function declaration and in an anonymous function alike, and a longer one
\* makes parse return Err.
CapIs255 ==
    \A form \in {"call", "fun", "anon"}, n \in {MaxArgs - 1, MaxArgs, MaxArgs + 1} :
        (Len(tokens) >= 2 * (MaxArgs - 1) /\ pstatus # "parsing"
           /\ tokens = Scan(ListProgram(form, n)))
            => pstatus = (IF n <= MaxArgs THEN "ok" ELSE "err")

\* C13: a function declaration with a native name is rejected in both forms:
\* no Function or CmdFunction of the result has a native name, and the parse
\* of a program that starts with such a declaration returns Err.
NativeNamesRejected ==
    /\ \A i \in 1..Len(stmts) :
           stmts[i].t \in {"Function", "CmdFunction"}
               => stmts[i].name.lexeme \notin NATIVE_FUNCTIONS
    /\ (pstatus # "parsing" /\ tokens[1].token_type = "Fun"
          /\ tokens[2].lexeme \in NATIVE_FUNCTIONS)
           => pstatus = "err"

\* the tokens that start a statement of the grammar
StatementStart ==
    {"Var", "Fun", "Print", "Input", "Errors", "Exits", "Import", "If", "Try",
     "While", "Bench", "For", "Return", "Break", "Start"}

\* the cursor c is a recovery point: just after a `;`, at a token that starts
\* a statement, or at Eof
RecoveryPoint(c) ==
    \/ tokens[c + 1].token_type \in StatementStart \cup {"Eof"}
    \/ c >= 1 /\ tokens[c].token_type = "Semicolon"

\* from the cursor c0 of the error, c1 is the nearest recovery point
Recovered(c0, c1) ==
    /\ c0 <= c1
    /\ RecoveryPoint(c1)
    /\ \A c \in (c0 + 1)..(c1 - 1) : ~RecoveryPoint(c)

\* C14: when synchronize returns after a parse error, the parser is at the
\* nearest recovery point after the error: just after the next `;`, at the
\* next statement-starting token or at Eof, none of them skipped.
SynchronizeRecovers ==
    [][Len(errs') > Len(errs)
         => Recovered(Parse("declaration", TheParser).p.current, current')]_vars

\* the predicates of an if statement in order, and their branches
IfPredicates(s) ==
    <<s.predicate>> \o [i \in 1..Len(s.elif_branches) |-> s.elif_branches[i][1]]

IfBranches(s) ==
    <<s.then>> \o [i \in 1..Len(s.elif_branches) |-> s.elif_branches[i][2]]

\* the predicates from the i-th on, evaluated in order until one is truthy or
\* fails: the one it stopped at (0 when none is truthy), and the heap then
RECURSIVE FirstTruthy(_, _, _, _)
FirstTruthy(preds, i, h, env) ==
    IF i > Len(preds) THEN [i |-> 0, failed |-> FALSE, heap |-> h]
    ELSE LET v == evaluate(preds[i], h, env)
         IN IF ~v.ok THEN [i |-> i, failed |-> TRUE, heap |-> v.heap]
            ELSE IF is_truthy(v.val) THEN [i |-> i, failed |-> FALSE, heap |-> v.heap]
            ELSE FirstTruthy(preds, i + 1, v.heap, env)

\* what the step of an if statement s has to be when its predicates end as f
IfStep(s, f) ==
    /\ heap' = f.heap
    /\ IF f.failed
       THEN cstack' = Below /\ result'.kind = "Err"
       ELSE IF f.i # 0
       THEN /\ Len(cstack') = Len(cstack) + 1
            /\ cstack'[Len(cstack')].ss = <<IfBranches(s)[f.i]>>
       ELSE IF s.els # None
       THEN /\ Len(cstack') = Len(cstack) + 1
            /\ cstack'[Len(cstack')].ss = <<s.els[1]>>
       ELSE /\ Len(cstack') = Len(cstack)
            /\ cstack'[Len(cstack')].pc = Top.pc + 1

\* C15: an if statement runs at most one branch: the predicates are evaluated
\* in order, the branch of the first truthy one runs and no later predicate
\* is evaluated, the else branch runs exactly when there is one and no
\* predicate is truthy, and an error in a predicate or in the branch
\* propagates without another branch being run.
IfRunsOneBranch ==
    [][/\ (Ready /\ Cur.t = "IfStmt" /\ cstack' # cstack)
           => IfStep(Cur, FirstTruthy(IfPredicates(Cur), 1, heap, environment))
       /\ (Returned("if") /\ cstack' # cstack)
           => /\ Len(cstack') <= Len(cstack)
              /\ result.kind # "Ok" => (cstack' = Below /\ result' = result)]_vars

\* the second predicate of three was the first truthy one: its branch alone
\* has run, and the assignment in the third predicate has not happened
SecondBranchOnly ==
    /\ rstatus = "ok"
    /\ Len(stmts) = 3 /\ stmts[2].t = "IfStmt" /\ Len(stmts[2].elif_branches) = 2
    /\ stmts[2].els # None
    /\ out = <<NumberV(2), NumberV(1)>>

\* C16: an import runs the script in an interpreter of its own: while the
\* script runs and after it has ended well, the frames of the importer hold
\* what they held, and the importer goes on with its environment and its
\* specials; a script that cannot be read or parsed, or that ends with an
\* error, has `Error 108:` printed and the process ended, no error returned.
ImportFreshOrError108 ==
    [][/\ \A i \in 1..(Len(cstack) - 1) :
             (cstack[i].ph = "import" /\ rstatus' = "running")
                 => \A j \in 1..(cstack[i + 1].env0 - 1) :
                        j <= Len(heap') /\ heap'[j] = heap[j]
       /\ (Returned("import") /\ result.kind = "Ok" /\ cstack' # cstack)
             => /\ environment' = Top.old /\ specials' = Top.sp
                /\ heap' = SubSeq(heap, 1, Top.old)
                /\ rstatus' = "running"
       /\ (Returned("import") /\ result.kind # "Ok" /\ rstatus' # rstatus)
             => (rstatus' = "exit" /\ out' = Printed(out, StringV("Error 108:")))
       /\ (Ready /\ Cur.t = "Import" /\ rstatus' # rstatus)
             => (rstatus' = "exit" /\ out' = Printed(out, StringV("Error 108:")))]_vars

\* C17: the unit of the duration a bench prints goes by its magnitude over
\* all three units: no duration above 10000 ms is printed in milliseconds
\* or microseconds, it is printed in seconds.
BenchUnitByMagnitude ==
    \A i \in 1..Len(out) :
        out[i].ty = "Bench"
            => /\ out[i].s = "ms" => out[i].n <= 10000
               /\ out[i].s = "us" => out[i].n <= 10000 * 1000

\* the cursor c of a parse error is an index of tokens, and not that of an Eof
\* that is the first token
ErrorCursor(c) ==
    /\ 0 <= c /\ c < Len(tokens)
    /\ c >= 1 \/ tokens[c + 1].token_type # "Eof"

\* C18: throughout parse the cursor is an index of tokens, at most the index
\* of Eof, and never decreases; when synchronize is entered the cursor is not
\* at an Eof that is the first token, so that previous() after its advance
\* reads tokens[current - 1] with current >= 1.
CursorInBounds ==
    /\ [](0 <= current /\ current < Len(tokens))
    /\ [][pstatus = "parsing" => current' >= current]_vars
    /\ [][(pstatus = "parsing" /\ Len(errs') > Len(errs))
             => ErrorCursor(Parse("declaration", TheParser).p.current)]_vars

\* the only token before Eof cannot start an expression: synchronize has run
\* at Eof, and the cursor is still there
SynchronizedAtEof ==
    /\ Len(tokens) = 2 /\ tokens[1].token_type = "Print"
    /\ Len(errs) = 1 /\ current = 1

Consumed(r, c) == r.kind = "ok" => r.p.current > c

\* from the cursor c, the parsing function fn that returns Ok has consumed a token
Advances(fn, c) ==
    Consumed(Parse(fn, [tokens |-> tokens, current |-> c, next_id |-> 0]), c)

\* C19: parse terminates: the cursor is bounded by the index of Eof, every
\* iteration of the loop of parse strictly advances it or leaves the loop,
\* an iteration always has an outcome, and so do the loops inside it, whose
\* iterations parse a declaration or an expression that consumes a token
\* when it returns Ok.
ParseProgress ==
    /\ [][pstatus = "parsing" => (current' > current \/ pstatus' # "parsing")]_vars
    /\ []((pstatus = "parsing" /\ ~is_at_end(TheParser))
            => Parse("declaration", TheParser).kind \in {"ok", "err", "exit", "panic"})
    /\ []((pstatus = "parsing" /\ current = 0)
            => \A c \in 0..(Len(tokens) - 2) :
                   Advances("declaration", c) /\ Advances("expression", c))

\* three tokens none of which starts a statement: three errors, each followed
\* by a synchronize, and parse has returned
ParseEndedAfterErrors ==
    /\ pstatus = "err" /\ Len(tokens) = 4
    /\ Len(errs) = 3 /\ current = 3

====
